---- MODULE Spec2Model ----
(***************************************************************************)
(* A model of the x402nano Helper (src/src/typescript/index.ts): the       *)
(* Helper class with its configuration, credential and hook lifecycle, the *)
(* generateSendBlock pipeline (account_info, balance arithmetic, hooks,    *)
(* Proof-of-Work, signing) and the exported pure function                  *)
(* calculateBalanceAfterSend.                                              *)
(*                                                                         *)
(* A JavaScript object is a function from the set of its own property      *)
(* names; the JavaScript value undefined is the string Undefined.  A code  *)
(* path that throws yields Throw(e), one that returns yields Return(v).    *)
(* The node, the hooks and the local work generator are the environment:   *)
(* what they answer is chosen by \E in the step that receives the answer.  *)
(***************************************************************************)
EXTENDS Integers, Sequences, FiniteSets, TLC

(***************************************************************************)
(* Bounds of the model.                                                    *)
(***************************************************************************)
MaxHooks == 2
MaxLen == 3

(***************************************************************************)
(* JavaScript values.                                                      *)
(***************************************************************************)
Undefined == "undefined"
Empty == ""
Falsy(v) == v \in {Undefined, Empty}

Get(obj, f) == IF f \in DOMAIN obj THEN obj[f] ELSE Undefined
Put(obj, f, v) == [g \in (DOMAIN obj) \cup {f} |-> IF g = f THEN v ELSE obj[g]]
Nullish(a, b) == IF a = Undefined THEN b ELSE a

\* An outcome carries an object: the error thrown or the value returned
\* (Nothing for a call that returns no value, This for one that returns the Helper).
Nothing == [f \in {} |-> Undefined]
This == [this |-> "Helper"]
Throw(e) == [t |-> "throw", v |-> e]
Return(v) == [t |-> "return", v |-> v]
Err(kind, msg) == [kind |-> kind, msg |-> msg, cause |-> ""]
ErrCausedBy(kind, msg, error) == [kind |-> kind, msg |-> msg, cause |-> error.msg]

(***************************************************************************)
(* Error codes and property names.                                         *)
(***************************************************************************)
ERROR_CONFIG == "error_config"
ERROR_BLOCK_GENERATION == "error_block_generation"
ERROR_NANO_RPC_CONNECTION == "error_nano_rpc_connection"
ERROR_NANO_WORK_GENERATION == "error_nano_work_generation"
ERROR_INSUFFICIENT_NANO_BALANCE == "error_insufficient_nano_balance"

NANO_RPC_URL == "NANO_RPC_URL"
NANO_WORK_GENERATION_URL == "NANO_WORK_GENERATION_URL"
NANO_ACCOUNT_PRIVATE_KEY_PROPERTY == "NANO_ACCOUNT_PRIVATE_KEY"
Fields == {NANO_RPC_URL, NANO_WORK_GENERATION_URL, NANO_ACCOUNT_PRIVATE_KEY_PROPERTY}

\* Milliseconds.
ONE_SECOND == 1000
ONE_MINUTE == 60 * ONE_SECOND

XRB_PREFIX == "xrb_"
NANO_PREFIX == "nano_"

(***************************************************************************)
(* Sample values: URLs, private keys, block hashes, accounts, work tokens. *)
(***************************************************************************)
SAMPLE_NANO_RPC_URL == "https://sample-nano-rpc-url"
SAMPLE_NANO_RPC_URL_2 == "https://sample-nano-rpc-url-two"
InvalidUrl == "an_invalid_url"
UrlInputs == {Undefined, Empty, InvalidUrl, SAMPLE_NANO_RPC_URL, SAMPLE_NANO_RPC_URL_2}

SAMPLE_NANO_ACCOUNT_PRIVATE_KEY == "D9E8..CC83"
SAMPLE_NANO_ACCOUNT_PRIVATE_KEY_2 == "614D..EDBC"
InvalidKey == "an_invalid_nano_private_key"
KeyInputs == {Undefined, Empty, InvalidKey,
              SAMPLE_NANO_ACCOUNT_PRIVATE_KEY, SAMPLE_NANO_ACCOUNT_PRIVATE_KEY_2}

Frontiers == {"F1", "F2"}
Representatives == {"nano_rep"}
PayTos == {"nano_payee"}
WorkValues == {Undefined, Empty, "w_bad", "w_F1", "w_F2"}

(***************************************************************************)
(* The format checks of the zod schemas URL and HEX_64, and the work       *)
(* verification, key derivation and signing of the Nano libraries.         *)
(***************************************************************************)
URLsafeParse(url) == url \in {SAMPLE_NANO_RPC_URL, SAMPLE_NANO_RPC_URL_2}
HEX_64safeParse(k) ==
  k \in {SAMPLE_NANO_ACCOUNT_PRIVATE_KEY, SAMPLE_NANO_ACCOUNT_PRIVATE_KEY_2}

\* What Nano.Crypto.verifyWork answers for a missing token is the library's
\* business; LenientFrontier is a hash for which it answers true.
LenientFrontier == "F0"

verifyWork(hash, work) ==
  \/ hash = "F1" /\ work = "w_F1"
  \/ hash = "F2" /\ work = "w_F2"
  \/ hash = LenientFrontier /\ Falsy(work)

\* The schema WORK_GENERATOR accepts functions; NotAFunction is a string.
NotAFunction == "should_be_a_function"
WorkGenerators == {"generator_1", "generator_2"}
WORK_GENERATORsafeParse(g) == g \in WorkGenerators

Hooks == {"hook"}

\* N.derivePublicKey, N.deriveAddress: one address per key, legacy prefix.
deriveAddress(privateKey) ==
  IF privateKey = SAMPLE_NANO_ACCOUNT_PRIVATE_KEY THEN "xrb_account_1"
  ELSE IF privateKey = SAMPLE_NANO_ACCOUNT_PRIVATE_KEY_2 THEN "xrb_account_2"
  ELSE "xrb_account_other"

\* block.account.replace(XRB_PREFIX, NANO_PREFIX)
replacePrefix(account) ==
  IF account = "xrb_account_1" THEN "nano_account_1"
  ELSE IF account = "xrb_account_2" THEN "nano_account_2"
  ELSE IF account = "xrb_account_other" THEN "nano_account_other"
  ELSE account

\* N.createBlock(privateKey, fields): the signed state block.
signBlock(privateKey, representative, balance, work, link, previous) ==
  [type |-> "state", account |-> deriveAddress(privateKey), previous |-> previous,
   representative |-> representative, balance |-> balance, link |-> link,
   work |-> work, signature |-> privateKey]

(***************************************************************************)
(* Decimal strings are sequences of digits; BigNumber parses one to an     *)
(* integer and toFixed() writes an integer in canonical decimal form.      *)
(***************************************************************************)
InDigits == {0, 1, 9}
RECURSIVE SeqsUpTo(_, _)
SeqsUpTo(S, n) ==
  IF n = 0 THEN {<<>>}
  ELSE LET shorter == SeqsUpTo(S, n - 1)
       IN  shorter \cup {Append(s, d) : s \in {q \in shorter : Len(q) = n - 1}, d \in S}
DecStrings == SeqsUpTo(InDigits, MaxLen) \ {<<>>}

RECURSIVE BigNumber(_)
BigNumber(s) ==
  IF Len(s) = 0 THEN 0
  ELSE 10 * BigNumber(SubSeq(s, 1, Len(s) - 1)) + s[Len(s)]

\* The character "-" of a negative number's string.
MinusSign == 0 - 1
RECURSIVE toFixed(_)
toFixed(n) ==
  IF n < 0 THEN <<MinusSign>> \o toFixed(0 - n)
  ELSE IF n < 10 THEN <<n>>
  ELSE Append(toFixed(n \div 10), n % 10)

\* calculateBalanceAfterSend that clamps a negative result to zero.
calculateBalanceAfterSend_clamp(currentBalance, amountToSend) ==
  LET bnBalanceAfterSend == BigNumber(currentBalance) - BigNumber(amountToSend)
  IN  IF bnBalanceAfterSend < 0 THEN Return(toFixed(0))
      ELSE Return(toFixed(bnBalanceAfterSend))

\* calculateBalanceAfterSend that rejects with lte(0) instead of lt(0).
calculateBalanceAfterSend_lte(currentBalance, amountToSend) ==
  LET bnBalanceAfterSend == BigNumber(currentBalance) - BigNumber(amountToSend)
  IN  IF bnBalanceAfterSend <= 0
      THEN Throw(Err(ERROR_INSUFFICIENT_NANO_BALANCE,
                     "Insufficient balance to perform Nano send transaction"))
      ELSE Return(toFixed(bnBalanceAfterSend))

calculateBalanceAfterSend(currentBalance, amountToSend) ==
  LET bnBalanceAfterSend == BigNumber(currentBalance) - BigNumber(amountToSend)
  IN  IF bnBalanceAfterSend < 0
      THEN Throw(Err(ERROR_INSUFFICIENT_NANO_BALANCE,
                     "Insufficient balance to perform Nano send transaction"))
      ELSE Return(toFixed(bnBalanceAfterSend))

(***************************************************************************)
(* The configuration validators.                                           *)
(***************************************************************************)
\* A validator whose flag lets an absent value through.
validateNanoRpcUrl_bypassAccepts(url, bypassNullCheck) ==
  IF Falsy(url)
  THEN IF bypassNullCheck THEN Return(Nothing)
       ELSE Throw(Err(ERROR_CONFIG, "NANO_RPC_URL is not set"))
  ELSE IF ~URLsafeParse(url)
  THEN Throw(Err(ERROR_CONFIG, "NANO_RPC_URL is not a valid URL"))
  ELSE Return(Nothing)

validateNanoRpcUrl(url, bypassNullCheck) ==
  IF ~bypassNullCheck /\ Falsy(url)
  THEN Throw(Err(ERROR_CONFIG, "NANO_RPC_URL is not set"))
  ELSE IF ~URLsafeParse(url)
  THEN Throw(Err(ERROR_CONFIG, "NANO_RPC_URL is not a valid URL"))
  ELSE Return(Nothing)

validateNanoWorkGenerationUrl(url, bypassNullCheck) ==
  IF ~bypassNullCheck /\ Falsy(url)
  THEN Throw(Err(ERROR_CONFIG, "NANO_WORK_GENERATION_URL is not set"))
  ELSE IF ~URLsafeParse(url)
  THEN Throw(Err(ERROR_CONFIG, "NANO_WORK_GENERATION_URL is not a valid URL"))
  ELSE Return(Nothing)

validateNanoAccountPrivateKey(privateKey, bypassNullCheck) ==
  IF ~bypassNullCheck /\ Falsy(privateKey)
  THEN Throw(Err(ERROR_CONFIG, "NANO_ACCOUNT_PRIVATE_KEY is not set"))
  ELSE IF ~HEX_64safeParse(privateKey)
  THEN Throw(Err(ERROR_CONFIG, "NANO_ACCOUNT_PRIVATE_KEY is not of a valid format"))
  ELSE Return(Nothing)

\* validateCustomWorkGenerator that throws under the configuration code.
validateCustomWorkGenerator_config(workGenerator) ==
  IF ~WORK_GENERATORsafeParse(workGenerator)
  THEN Throw(Err(ERROR_CONFIG, "Custom work generator is not valid"))
  ELSE Return(Nothing)

validateCustomWorkGenerator(workGenerator) ==
  IF ~WORK_GENERATORsafeParse(workGenerator)
  THEN Throw(Err(ERROR_NANO_WORK_GENERATION, "Custom work generator is not valid"))
  ELSE Return(Nothing)

(***************************************************************************)
(* State.  config, the two hook registries and workGenerator are the       *)
(* fields of the Helper; constructed says that a Helper exists.  ret is    *)
(* the outcome of the caller's latest synchronous call; call is the        *)
(* asynchronous call in flight or just finished (its position pc, its      *)
(* locals and its result) and log lists what that call has made happen     *)
(* outside the Helper, in order.  calc is a direct call of the exported    *)
(* calculateBalanceAfterSend: its arguments and its outcome.               *)
(*                                                                         *)
(* workUrlSupplied records whether the caller ever supplied a              *)
(* work-generation URL, in the constructor's argument or through           *)
(* setNanoWorkGenerationUrl.  The Helper keeps the very object its         *)
(* constructor was given; peer is a second Helper of the same program, if  *)
(* there is one: constructed from the same object (its config is then      *)
(* config itself) or from an object of its own, with that object as the    *)
(* caller made it (original).                                              *)
(*                                                                         *)
(* validation is a direct call of one of the exported config validators:   *)
(* the validator, its two arguments and its outcome.  other is a second    *)
(* generateSendBlock call on the same Helper, made while the first is in   *)
(* flight: its call record and its log.                                    *)
(***************************************************************************)
VARIABLES constructed, config, beforeWorkGenerationHooks, afterWorkGenerationHooks,
          workGenerator, ret, call, log, calc, workUrlSupplied, peer, validation, other

helperVars == <<config, beforeWorkGenerationHooks, afterWorkGenerationHooks, workGenerator>>
vars == <<constructed, config, beforeWorkGenerationHooks, afterWorkGenerationHooks,
          workGenerator, ret, call, log, calc, workUrlSupplied, peer, validation, other>>

EmptyObject == [f \in {} |-> Undefined]
NoResult == [t |-> "none", v |-> Nothing]
NoReturn == [op |-> Undefined, t |-> "none", v |-> Nothing]
NoInfo == [frontier |-> Undefined, balance |-> <<>>, representative |-> Undefined]

IdleCall ==
  [pc |-> "idle", op |-> Undefined, payTo |-> Undefined, amount |-> <<>>,
   account |-> Undefined, info |-> NoInfo,
   representative |-> Undefined, balance |-> <<>>, link |-> Undefined,
   previous |-> Undefined, generator |-> Undefined, context |-> EmptyObject,
   work |-> Undefined, i |-> 0, timer |-> 0, caught |-> NoResult, result |-> NoResult]

Quiescent == call.pc \in {"idle", "done"}
NoPeer == [exists |-> FALSE, sameObject |-> FALSE, config |-> EmptyObject,
           original |-> EmptyObject]
NoValidation == [fn |-> Undefined, value |-> Undefined, bypassNullCheck |-> FALSE,
                 out |-> NoResult]
NoOther == [call |-> IdleCall, log |-> <<>>]

(***************************************************************************)
(* new Helper(config?): the config object is adopted as it is, without     *)
(* validation, and its work-generation URL defaults to its RPC URL.        *)
(***************************************************************************)
\* new Helper() without an argument.
NoConfig == [f \in {"no_config"} |-> Undefined]
CtorUrls == {Empty, InvalidUrl, SAMPLE_NANO_RPC_URL, SAMPLE_NANO_RPC_URL_2}
CtorKeys == {Empty, InvalidKey, SAMPLE_NANO_ACCOUNT_PRIVATE_KEY,
             SAMPLE_NANO_ACCOUNT_PRIVATE_KEY_2}
CtorConfigs ==
  {c \in UNION {[S -> CtorUrls \cup CtorKeys] : S \in SUBSET Fields} :
     \A f \in DOMAIN c :
        c[f] \in (IF f = NANO_ACCOUNT_PRIVATE_KEY_PROPERTY THEN CtorKeys ELSE CtorUrls)}

Constructor(c) ==
  IF c = NoConfig THEN EmptyObject
  ELSE Put(c, NANO_WORK_GENERATION_URL,
           Nullish(Get(c, NANO_WORK_GENERATION_URL), Get(c, NANO_RPC_URL)))

InitHelper ==
  /\ constructed = TRUE
  /\ \E c \in CtorConfigs \cup {NoConfig} :
        /\ config = Constructor(c)
        /\ workUrlSupplied = (Get(c, NANO_WORK_GENERATION_URL) # Undefined)
  /\ peer = NoPeer
  /\ beforeWorkGenerationHooks = <<>>
  /\ afterWorkGenerationHooks = <<>>
  /\ workGenerator = Undefined
  /\ ret = NoReturn
  /\ call = IdleCall
  /\ log = <<>>
  /\ calc = [args |-> <<>>, out |-> NoResult]
  /\ validation = NoValidation
  /\ other = NoOther

InitCalc ==
  /\ constructed = FALSE
  /\ config = EmptyObject
  /\ workUrlSupplied = FALSE
  /\ peer = NoPeer
  /\ beforeWorkGenerationHooks = <<>>
  /\ afterWorkGenerationHooks = <<>>
  /\ workGenerator = Undefined
  /\ ret = NoReturn
  /\ call = IdleCall
  /\ log = <<>>
  /\ \E a \in DecStrings, b \in DecStrings : calc = [args |-> <<a, b>>, out |-> NoResult]
  /\ validation = NoValidation
  /\ other = NoOther

Validators ==
  {"validateNanoRpcUrl", "validateNanoWorkGenerationUrl", "validateNanoAccountPrivateKey"}
ValidatorInputs(fn) == IF fn = "validateNanoAccountPrivateKey" THEN KeyInputs ELSE UrlInputs

InitValidate ==
  /\ constructed = FALSE
  /\ config = EmptyObject
  /\ workUrlSupplied = FALSE
  /\ peer = NoPeer
  /\ beforeWorkGenerationHooks = <<>>
  /\ afterWorkGenerationHooks = <<>>
  /\ workGenerator = Undefined
  /\ ret = NoReturn
  /\ call = IdleCall
  /\ log = <<>>
  /\ calc = [args |-> <<>>, out |-> NoResult]
  /\ \E fn \in Validators, bypassNullCheck \in BOOLEAN :
        \E value \in ValidatorInputs(fn) :
           validation = [fn |-> fn, value |-> value, bypassNullCheck |-> bypassNullCheck,
                         out |-> NoResult]
  /\ other = NoOther

Init == InitHelper \/ InitCalc \/ InitValidate

(***************************************************************************)
(* A direct call calculateBalanceAfterSend({currentBalance, amountToSend}).*)
(***************************************************************************)
CalculateBalanceAfterSend ==
  /\ calc.args # <<>>
  /\ calc.out.t = "none"
  /\ calc' = [calc EXCEPT !.out = calculateBalanceAfterSend(calc.args[1], calc.args[2])]
  /\ UNCHANGED <<constructed, helperVars, ret, call, log, workUrlSupplied, peer,
                 validation, other>>

(***************************************************************************)
(* A direct call of a config validator, validateX(value, bypassNullCheck). *)
(***************************************************************************)
validate(fn, value, bypassNullCheck) ==
  CASE fn = "validateNanoRpcUrl" -> validateNanoRpcUrl(value, bypassNullCheck)
    [] fn = "validateNanoWorkGenerationUrl" ->
         validateNanoWorkGenerationUrl(value, bypassNullCheck)
    [] fn = "validateNanoAccountPrivateKey" ->
         validateNanoAccountPrivateKey(value, bypassNullCheck)

Validate ==
  /\ validation.fn # Undefined
  /\ validation.out.t = "none"
  /\ validation' = [validation EXCEPT
                      !.out = validate(validation.fn, validation.value,
                                       validation.bypassNullCheck)]
  /\ UNCHANGED <<constructed, helperVars, ret, call, log, calc, workUrlSupplied, peer,
                 other>>

(***************************************************************************)
(* The synchronous methods of the Helper.  A finished call's record is     *)
(* dropped when the caller makes its next call.                            *)
(***************************************************************************)
Returned(op, outcome) ==
  /\ ret' = [op |-> op, t |-> outcome.t, v |-> outcome.v]
  /\ call' = IF call.pc = "done" THEN IdleCall ELSE call
  /\ log' = IF call.pc = "done" THEN <<>> ELSE log
  /\ workUrlSupplied' =
        (workUrlSupplied \/ (op = "setNanoWorkGenerationUrl" /\ outcome.t = "return"))
  /\ UNCHANGED <<constructed, calc, peer, validation, other>>

\* setNanoRpcUrl that stores the RPC URL and leaves the work-generation URL alone.
setNanoRpcUrlConfig_noDefault(url) == Put(config, NANO_RPC_URL, url)

setNanoRpcUrlConfig(url) ==
  LET c1 == Put(config, NANO_RPC_URL, url)
  IN  Put(c1, NANO_WORK_GENERATION_URL,
          Nullish(Get(c1, NANO_WORK_GENERATION_URL), Get(c1, NANO_RPC_URL)))

SetNanoRpcUrl(url) ==
  /\ constructed
  /\ LET v == validateNanoRpcUrl(url, TRUE)
     IN  IF v.t = "throw"
         THEN /\ Returned("setNanoRpcUrl", v)
              /\ UNCHANGED helperVars
         ELSE /\ config' = setNanoRpcUrlConfig(url)
              /\ Returned("setNanoRpcUrl", Return(Nothing))
              /\ UNCHANGED <<beforeWorkGenerationHooks, afterWorkGenerationHooks,
                             workGenerator>>

SetNanoWorkGenerationUrl(url) ==
  /\ constructed
  /\ LET v == validateNanoWorkGenerationUrl(url, TRUE)
     IN  IF v.t = "throw"
         THEN /\ Returned("setNanoWorkGenerationUrl", v)
              /\ UNCHANGED helperVars
         ELSE /\ config' = Put(config, NANO_WORK_GENERATION_URL, url)
              /\ Returned("setNanoWorkGenerationUrl", Return(Nothing))
              /\ UNCHANGED <<beforeWorkGenerationHooks, afterWorkGenerationHooks,
                             workGenerator>>

\* setNanoAccountPrivateKey without its already-set guard.
setNanoAccountPrivateKey_overwrite(cfg, privateKey) ==
  LET v == validateNanoAccountPrivateKey(privateKey, TRUE)
  IN  IF v.t = "throw" THEN [config |-> cfg, outcome |-> v]
      ELSE [config |-> Put(cfg, NANO_ACCOUNT_PRIVATE_KEY_PROPERTY, privateKey),
            outcome |-> Return(Nothing)]

setNanoAccountPrivateKey(cfg, privateKey) ==
  LET v == validateNanoAccountPrivateKey(privateKey, TRUE)
  IN  IF v.t = "throw" THEN [config |-> cfg, outcome |-> v]
      ELSE IF ~Falsy(Get(cfg, NANO_ACCOUNT_PRIVATE_KEY_PROPERTY))
      THEN [config |-> cfg,
            outcome |-> Throw(Err(ERROR_CONFIG, "Nano account private key already set"))]
      ELSE [config |-> Put(cfg, NANO_ACCOUNT_PRIVATE_KEY_PROPERTY, privateKey),
            outcome |-> Return(Nothing)]

SetNanoAccountPrivateKey(privateKey) ==
  /\ constructed
  /\ LET r == setNanoAccountPrivateKey(config, privateKey)
     IN  /\ config' = r.config
         /\ Returned("setNanoAccountPrivateKey", r.outcome)
  /\ UNCHANGED <<beforeWorkGenerationHooks, afterWorkGenerationHooks, workGenerator>>

\* clearNanoAccountPrivateKey that clears only a key of valid format.
clearNanoAccountPrivateKey_validOnly(cfg) ==
  IF HEX_64safeParse(Get(cfg, NANO_ACCOUNT_PRIVATE_KEY_PROPERTY))
  THEN Put(cfg, NANO_ACCOUNT_PRIVATE_KEY_PROPERTY, Undefined)
  ELSE cfg

clearNanoAccountPrivateKey(cfg) == Put(cfg, NANO_ACCOUNT_PRIVATE_KEY_PROPERTY, Undefined)

ClearNanoAccountPrivateKey ==
  /\ constructed
  /\ config' = clearNanoAccountPrivateKey(config)
  /\ Returned("clearNanoAccountPrivateKey", Return(Nothing))
  /\ UNCHANGED <<beforeWorkGenerationHooks, afterWorkGenerationHooks, workGenerator>>

\* setCustomWorkGenerator that uninstalls the generator when it rejects one.
SetCustomWorkGenerator_uninstalls(g) ==
  /\ constructed
  /\ LET v == validateCustomWorkGenerator(g)
     IN  IF v.t = "throw"
         THEN /\ workGenerator' = Undefined
              /\ Returned("setCustomWorkGenerator", v)
              /\ UNCHANGED <<config, beforeWorkGenerationHooks, afterWorkGenerationHooks>>
         ELSE /\ workGenerator' = g
              /\ Returned("setCustomWorkGenerator", Return(Nothing))
              /\ UNCHANGED <<config, beforeWorkGenerationHooks, afterWorkGenerationHooks>>

SetCustomWorkGenerator(g) ==
  /\ constructed
  /\ LET v == validateCustomWorkGenerator(g)
     IN  IF v.t = "throw"
         THEN /\ Returned("setCustomWorkGenerator", v)
              /\ UNCHANGED helperVars
         ELSE /\ workGenerator' = g
              /\ Returned("setCustomWorkGenerator", Return(Nothing))
              /\ UNCHANGED <<config, beforeWorkGenerationHooks, afterWorkGenerationHooks>>

\* A registration that replaces the registry by the one hook.
OnBeforeWorkGeneration_set(hook) ==
  /\ constructed
  /\ Len(beforeWorkGenerationHooks) < MaxHooks
  /\ beforeWorkGenerationHooks' = <<hook>>
  /\ Returned("onBeforeWorkGeneration", Return(This))
  /\ UNCHANGED <<config, afterWorkGenerationHooks, workGenerator>>

OnBeforeWorkGeneration(hook) ==
  /\ constructed
  /\ Len(beforeWorkGenerationHooks) < MaxHooks
  /\ beforeWorkGenerationHooks' = Append(beforeWorkGenerationHooks, hook)
  /\ Returned("onBeforeWorkGeneration", Return(This))
  /\ UNCHANGED <<config, afterWorkGenerationHooks, workGenerator>>

OnAfterWorkGeneration(hook) ==
  /\ constructed
  /\ Len(afterWorkGenerationHooks) < MaxHooks
  /\ afterWorkGenerationHooks' = Append(afterWorkGenerationHooks, hook)
  /\ Returned("onAfterWorkGeneration", Return(This))
  /\ UNCHANGED <<config, beforeWorkGenerationHooks, workGenerator>>

\* getConfig that blanks the key instead of leaving the property out.
getConfig_blanked(cfg) ==
  [f \in DOMAIN cfg |-> IF f = "NANO_ACCOUNT_PRIVATE_KEY" THEN Undefined ELSE cfg[f]]

getConfig(cfg) ==
  [f \in (DOMAIN cfg) \ {"NANO_ACCOUNT_PRIVATE_KEY"} |-> cfg[f]]

GetConfig ==
  /\ constructed
  /\ Returned("getConfig", Return(getConfig(config)))
  /\ UNCHANGED helperVars

(***************************************************************************)
(* What the environment answers.  An RPC exchange ends in a transport      *)
(* failure, a timeout (the request aborted), a non-success HTTP status, an *)
(* unparsable body, or a JSON body, which may carry an error field.        *)
(***************************************************************************)
RpcFailures == {"network", "timeout", "http", "parse"}
Amounts == {<<1>>, <<0, 2>>}
Balances == {<<0>>, <<1>>, <<1, 0>>}
NodeErrors == {Undefined, "Account not found"}

NoBody == [error |-> Undefined, frontier |-> Undefined, balance |-> <<>>,
           representative |-> Undefined, work |-> Undefined, hash |-> Undefined]
FailedResponses == {[kind |-> k, body |-> NoBody] : k \in RpcFailures}
AccountInfoResponses ==
  FailedResponses \cup
  {[kind |-> "json", body |-> [NoBody EXCEPT !.error = e, !.frontier = f,
                                                 !.balance = b, !.representative = r]] :
     e \in NodeErrors, f \in {Undefined, "F1"}, b \in Balances, r \in Representatives}
WorkGenerateResponses ==
  FailedResponses \cup
  {[kind |-> "json", body |-> [NoBody EXCEPT !.error = e, !.work = w]] :
     e \in NodeErrors, w \in WorkValues}
ProcessResponses ==
  FailedResponses \cup
  {[kind |-> "json", body |-> [NoBody EXCEPT !.error = e, !.hash = h]] :
     e \in NodeErrors, h \in {"block_hash"}}

HookEffects == {"ok", "throw", "tamper"}
HookError == Err("hook_error", "hook failed")
GeneratorError == Err("generator_error", "generator failed")
\* A generator call ends with a work token, or raises GeneratorError.
GeneratorRaises == "raises"
GeneratorOutcomes == WorkValues \cup {GeneratorRaises}
LibraryError == Err("library_error", "Secret key is not valid")

(***************************************************************************)
(* nanoRpcCall once the exchange has ended.  The try block returns the     *)
(* JSON body or throws: fetch rejects (transport failure, or the abort at  *)
(* the timeout), the status is not a success, the body does not parse, or  *)
(* the body carries an error field.  The catch block replaces whatever was *)
(* thrown by an error that depends on isGeneratingWork alone.              *)
(***************************************************************************)
nanoRpcCallTry(response) ==
  CASE response.kind = "network" -> Throw(Err(Undefined, "fetch failed"))
    [] response.kind = "timeout" -> Throw(Err(Undefined, "This operation was aborted"))
    [] response.kind = "http" -> Throw(Err(Undefined, "HTTP status: response text"))
    [] response.kind = "parse" -> Throw(Err(Undefined, "Unexpected token in JSON"))
    [] response.kind = "json" ->
         IF ~Falsy(response.body.error)
         THEN Throw(Err(ERROR_NANO_RPC_CONNECTION, response.body.error))
         ELSE Return(response.body)

\* nanoRpcCall without its catch block.
nanoRpcCall_rethrow(response, isGeneratingWork) == nanoRpcCallTry(response)

nanoRpcCall(response, isGeneratingWork) ==
  LET r == nanoRpcCallTry(response)
  IN  IF r.t = "return" THEN r
      ELSE Throw(Err(IF isGeneratingWork THEN ERROR_NANO_WORK_GENERATION
                                         ELSE ERROR_NANO_RPC_CONNECTION,
                     IF isGeneratingWork THEN "Could not connect to Nano Work Generation URL"
                                         ELSE "Could not connect to Nano RPC URL"))

\* nanoRpcCall up to its await: the timer that aborts the request is set
\* (timer is its delay in milliseconds, 0 when no timer is pending), then the
\* request is sent.
\* nanoRpcCall that sets no timer.
nanoRpcCallBegin_noTimer(c, timeout) == c

nanoRpcCallBegin(c, timeout) == [c EXCEPT !.timer = timeout]

\* nanoRpcCall without its finally block: the timer stays pending.
nanoRpcCallEnd_keepTimer(c, response) ==
  LET r == nanoRpcCallTry(response)
  IN  [c EXCEPT !.caught = IF r.t = "throw" THEN r ELSE NoResult]

\* The end of nanoRpcCall: what the catch block caught, if the try block
\* threw, and the finally block's clearTimeout.
nanoRpcCallEnd(c, response) ==
  LET r == nanoRpcCallTry(response)
  IN  [c EXCEPT !.caught = IF r.t = "throw" THEN r ELSE NoResult, !.timer = 0]

\* The abort at the timeout happens only while the timer is pending.
TimedOut == [kind |-> "timeout", body |-> NoBody]
CanEnd(c, response) == response = TimedOut => c.timer > 0

Event(ev, i, who, what) == [ev |-> ev, i |-> i, who |-> who, what |-> what]
Step(c, lg) == [call |-> c, log |-> lg]
Fail(c, lg, error) == Step([c EXCEPT !.pc = "done", !.result = Throw(error)], lg)
Succeed(c, lg, value) == Step([c EXCEPT !.pc = "done", !.result = Return(value)], lg)

(***************************************************************************)
(* workGenerate up to its await: the local generator is invoked, or the    *)
(* work_generate request is sent to the work-generation URL.               *)
(***************************************************************************)
workGenerateBegin(c, lg) ==
  IF c.generator # Undefined
  THEN Step([c EXCEPT !.pc = "work"], Append(lg, Event("generator", 0, c.generator, c.previous)))
  ELSE LET workGenerationUrl == Nullish(Get(config, NANO_WORK_GENERATION_URL),
                                        Get(config, NANO_RPC_URL))
       IN  Step(nanoRpcCallBegin([c EXCEPT !.pc = "work"], 5 * ONE_MINUTE),
                Append(lg, Event("work_generate", 0, workGenerationUrl, c.previous)))

(***************************************************************************)
(* createBlock: the loop over the before-hooks from index i on, then       *)
(* workGenerate; the loop over the after-hooks from index i on, then the   *)
(* signing.  Each stops at its next await.                                 *)
(***************************************************************************)
createBlockBefore(c, lg, i) ==
  IF i <= Len(beforeWorkGenerationHooks)
  THEN Step([c EXCEPT !.pc = "before", !.i = i],
            Append(lg, Event("before", i, beforeWorkGenerationHooks[i],
                             Get(c.context, "work"))))
  ELSE workGenerateBegin(c, lg)

\* A signing step without the check that there is work to sign with.
createBlockSign_unguarded(c, lg) ==
  LET privateKey == Get(config, NANO_ACCOUNT_PRIVATE_KEY_PROPERTY)
      lg1 == Append(lg, Event("sign", 0, privateKey, c.work))
      block == signBlock(privateKey, c.representative, c.balance, c.work,
                         c.link, c.previous)
  IN  IF ~HEX_64safeParse(privateKey) THEN Fail(c, lg1, LibraryError)
      ELSE Succeed(c, lg1, [block EXCEPT !.account = replacePrefix(block.account)])

\* A signing step that takes the block's fields from the hook context.
createBlockSign_fromContext(c, lg) ==
  IF ~Falsy(c.work)
  THEN LET privateKey == Get(config, NANO_ACCOUNT_PRIVATE_KEY_PROPERTY)
           lg1 == Append(lg, Event("sign", 0, privateKey, c.work))
           block == signBlock(privateKey, c.context["representative"], c.context["balance"],
                              c.work, c.context["link"], c.context["previous"])
       IN  IF ~HEX_64safeParse(privateKey) THEN Fail(c, lg1, LibraryError)
           ELSE Succeed(c, lg1, [block EXCEPT !.account = replacePrefix(block.account)])
  ELSE Fail(c, lg, Err(ERROR_NANO_WORK_GENERATION,
                       "No work generated during creation of Nano send block"))

createBlockSign(c, lg) ==
  IF ~Falsy(c.work)
  THEN LET privateKey == Get(config, NANO_ACCOUNT_PRIVATE_KEY_PROPERTY)
           lg1 == Append(lg, Event("sign", 0, privateKey, c.work))
           block == signBlock(privateKey, c.representative, c.balance, c.work,
                              c.link, c.previous)
       IN  IF ~HEX_64safeParse(privateKey) THEN Fail(c, lg1, LibraryError)
           ELSE Succeed(c, lg1, [block EXCEPT !.account = replacePrefix(block.account)])
  ELSE Fail(c, lg, Err(ERROR_NANO_WORK_GENERATION,
                       "No work generated during creation of Nano send block"))

\* An after-hook loop that puts work into the context once, before the loop.
createBlockAfter_assignOnce(c, lg, i) ==
  IF i <= Len(afterWorkGenerationHooks)
  THEN LET context == IF i = 1 THEN Put(c.context, "work", c.work) ELSE c.context
       IN  Step([c EXCEPT !.pc = "after", !.i = i, !.context = context],
                Append(lg, Event("after", i, afterWorkGenerationHooks[i],
                                 Get(context, "work"))))
  ELSE createBlockSign(c, lg)

createBlockAfter(c, lg, i) ==
  IF i <= Len(afterWorkGenerationHooks)
  THEN LET context == Put(c.context, "work", c.work)
       IN  Step([c EXCEPT !.pc = "after", !.i = i, !.context = context],
                Append(lg, Event("after", i, afterWorkGenerationHooks[i],
                                 Get(context, "work"))))
  ELSE createBlockSign(c, lg)

\* createBlock whose before-hook loop starts at the second hook.
createBlock_fromSecond(c, lg, representative, balance, link, previous) ==
  LET context == [f \in {"representative", "balance", "link", "previous"} |->
                    CASE f = "representative" -> representative
                      [] f = "balance" -> balance
                      [] f = "link" -> link
                      [] f = "previous" -> previous]
  IN  createBlockBefore([c EXCEPT !.representative = representative, !.balance = balance,
                                  !.link = link, !.previous = previous,
                                  !.generator = workGenerator, !.context = context],
                        lg, 2)

createBlock(c, lg, representative, balance, link, previous) ==
  LET context == [f \in {"representative", "balance", "link", "previous"} |->
                    CASE f = "representative" -> representative
                      [] f = "balance" -> balance
                      [] f = "link" -> link
                      [] f = "previous" -> previous]
  IN  createBlockBefore([c EXCEPT !.representative = representative, !.balance = balance,
                                  !.link = link, !.previous = previous,
                                  !.generator = workGenerator, !.context = context],
                        lg, 1)

(***************************************************************************)
(* getAccountInfo up to its await.                                         *)
(***************************************************************************)
getAccountInfoBegin(c, lg, account) ==
  LET v == validateNanoRpcUrl(Get(config, NANO_RPC_URL), FALSE)
  IN  IF v.t = "throw" THEN Fail(c, lg, v.v)
      ELSE Step(nanoRpcCallBegin([c EXCEPT !.pc = "account_info", !.account = account],
                                 ONE_MINUTE),
                Append(lg, Event("account_info", 0, Get(config, NANO_RPC_URL), account)))

(***************************************************************************)
(* generateSendBlock up to its first await, and from the answer to         *)
(* account_info up to the next await.                                      *)
(***************************************************************************)
\* generateSendBlock without the validation of the work-generation URL.
generateSendBlockBegin_lazy(c) ==
  LET v1 == validateNanoRpcUrl(Get(config, NANO_RPC_URL), FALSE)
      v2 == validateNanoAccountPrivateKey(Get(config, NANO_ACCOUNT_PRIVATE_KEY_PROPERTY), FALSE)
  IN  IF v1.t = "throw" THEN Fail(c, <<>>, v1.v)
      ELSE IF v2.t = "throw" THEN Fail(c, <<>>, v2.v)
      ELSE getAccountInfoBegin(c, <<>>,
                               deriveAddress(Get(config, NANO_ACCOUNT_PRIVATE_KEY_PROPERTY)))

\* generateSendBlock that asks for the account info of the payee.
generateSendBlockBegin_payee(c) ==
  LET v1 == validateNanoRpcUrl(Get(config, NANO_RPC_URL), FALSE)
      v2 == validateNanoAccountPrivateKey(Get(config, NANO_ACCOUNT_PRIVATE_KEY_PROPERTY), FALSE)
      v3 == validateNanoWorkGenerationUrl(Get(config, NANO_WORK_GENERATION_URL), FALSE)
  IN  IF v1.t = "throw" THEN Fail(c, <<>>, v1.v)
      ELSE IF v2.t = "throw" THEN Fail(c, <<>>, v2.v)
      ELSE IF v3.t = "throw" THEN Fail(c, <<>>, v3.v)
      ELSE getAccountInfoBegin(c, <<>>, c.payTo)

generateSendBlockBegin(c) ==
  LET v1 == validateNanoRpcUrl(Get(config, NANO_RPC_URL), FALSE)
      v2 == validateNanoAccountPrivateKey(Get(config, NANO_ACCOUNT_PRIVATE_KEY_PROPERTY), FALSE)
      v3 == validateNanoWorkGenerationUrl(Get(config, NANO_WORK_GENERATION_URL), FALSE)
  IN  IF v1.t = "throw" THEN Fail(c, <<>>, v1.v)
      ELSE IF v2.t = "throw" THEN Fail(c, <<>>, v2.v)
      ELSE IF v3.t = "throw" THEN Fail(c, <<>>, v3.v)
      ELSE getAccountInfoBegin(c, <<>>,
                               deriveAddress(Get(config, NANO_ACCOUNT_PRIVATE_KEY_PROPERTY)))

\* generateSendBlock that computes the balance before it looks at the frontier.
generateSendBlockResume_balanceFirst(c, lg, sourceAccountInfo) ==
  LET c1 == [c EXCEPT !.info = [frontier |-> sourceAccountInfo.frontier,
                                balance |-> sourceAccountInfo.balance,
                                representative |-> sourceAccountInfo.representative]]
      balanceAfterSend == calculateBalanceAfterSend(sourceAccountInfo.balance, c.amount)
  IN  IF balanceAfterSend.t = "throw" THEN Fail(c1, lg, balanceAfterSend.v)
      ELSE IF Falsy(sourceAccountInfo.frontier)
      THEN Fail(c1, lg, Err(ERROR_BLOCK_GENERATION,
                            "Source account has no frontier (unopened account)"))
      ELSE createBlock(c1, lg, sourceAccountInfo.representative, balanceAfterSend.v,
                       c.payTo, sourceAccountInfo.frontier)

generateSendBlockResume(c, lg, sourceAccountInfo) ==
  LET c1 == [c EXCEPT !.info = [frontier |-> sourceAccountInfo.frontier,
                                balance |-> sourceAccountInfo.balance,
                                representative |-> sourceAccountInfo.representative]]
      currentBalance == sourceAccountInfo.balance
      balanceAfterSend == calculateBalanceAfterSend(currentBalance, c.amount)
  IN  IF Falsy(sourceAccountInfo.frontier)
      THEN Fail(c1, lg, Err(ERROR_BLOCK_GENERATION,
                            "Source account has no frontier (unopened account)"))
      ELSE IF balanceAfterSend.t = "throw" THEN Fail(c1, lg, balanceAfterSend.v)
      ELSE createBlock(c1, lg, sourceAccountInfo.representative, balanceAfterSend.v,
                       c.payTo, sourceAccountInfo.frontier)

(***************************************************************************)
(* workGenerate from the generator's or the node's answer on: the wrapped  *)
(* failure, or the work token if it passes verification for hash.          *)
(***************************************************************************)
\* workGenerate that returns the produced work without verifying it.
workGenerateResume_unverified(c, outcome) ==
  IF c.generator # Undefined
  THEN IF outcome = GeneratorRaises
       THEN Throw(ErrCausedBy(ERROR_NANO_WORK_GENERATION,
                              "Error during custom work generation", GeneratorError))
       ELSE Return(outcome)
  ELSE LET r == nanoRpcCall(outcome, TRUE)
       IN  IF r.t = "throw"
           THEN Throw(ErrCausedBy(ERROR_NANO_WORK_GENERATION,
                                  "Error during work generation", r.v))
           ELSE Return(r.v.work)

\* workGenerate whose custom-generator catch block drops the cause.
workGenerateResume_noCause(c, outcome) ==
  LET produced ==
        IF c.generator # Undefined
        THEN IF outcome = GeneratorRaises
             THEN Throw(Err(ERROR_NANO_WORK_GENERATION, "Error during custom work generation"))
             ELSE Return(outcome)
        ELSE LET r == nanoRpcCall(outcome, TRUE)
             IN  IF r.t = "throw"
                 THEN Throw(ErrCausedBy(ERROR_NANO_WORK_GENERATION,
                                        "Error during work generation", r.v))
                 ELSE Return(r.v.work)
  IN  IF produced.t = "throw" THEN produced
      ELSE IF verifyWork(c.previous, produced.v) THEN produced
      ELSE Throw(Err(ERROR_NANO_WORK_GENERATION, "Generated work is not valid"))

workGenerateResume(c, outcome) ==
  LET produced ==
        IF c.generator # Undefined
        THEN IF outcome = GeneratorRaises
             THEN Throw(ErrCausedBy(ERROR_NANO_WORK_GENERATION,
                                    "Error during custom work generation", GeneratorError))
             ELSE Return(outcome)
        ELSE LET r == nanoRpcCall(outcome, TRUE)
             IN  IF r.t = "throw"
                 THEN Throw(ErrCausedBy(ERROR_NANO_WORK_GENERATION,
                                        "Error during work generation", r.v))
                 ELSE Return(r.v.work)
  IN  IF produced.t = "throw" THEN produced
      ELSE IF verifyWork(c.previous, produced.v) THEN produced
      ELSE Throw(Err(ERROR_NANO_WORK_GENERATION, "Generated work is not valid"))

(***************************************************************************)
(* What a hook does to the shared context while it runs.                   *)
(***************************************************************************)
hookEffect(context, effect) ==
  IF effect = "tamper"
  THEN [f \in DOMAIN context \cup {"work"} |->
          CASE f = "representative" -> "nano_other_rep"
            [] f = "balance" -> <<9>>
            [] f = "link" -> "nano_other_payee"
            [] f = "previous" -> "F2"
            [] f = "work" -> "w_bad"]
  ELSE context

(***************************************************************************)
(* The asynchronous methods of the Helper and the steps that resume them.  *)
(***************************************************************************)
Started(s) ==
  /\ call' = s.call
  /\ log' = s.log
  /\ ret' = NoReturn
  /\ UNCHANGED <<constructed, helperVars, calc, workUrlSupplied, peer, validation, other>>

Resumed(s) ==
  /\ call' = s.call
  /\ log' = s.log
  /\ UNCHANGED <<constructed, helperVars, ret, calc, workUrlSupplied, peer, validation,
                 other>>

GenerateSendBlock(payTo, amount) ==
  /\ constructed
  /\ Started(generateSendBlockBegin(
       [IdleCall EXCEPT !.op = "generateSendBlock", !.payTo = payTo, !.amount = amount]))

GetAccountInfo(account) ==
  /\ constructed
  /\ Started(getAccountInfoBegin([IdleCall EXCEPT !.op = "getAccountInfo"], <<>>, account))

processBlockBegin(c, block) ==
  LET v == validateNanoRpcUrl(Get(config, NANO_RPC_URL), FALSE)
  IN  IF v.t = "throw" THEN Fail(c, <<>>, v.v)
      ELSE Step(nanoRpcCallBegin([c EXCEPT !.pc = "process"], ONE_MINUTE),
                <<Event("process", 0, Get(config, NANO_RPC_URL), block)>>)

ProcessBlock(block) ==
  /\ constructed
  /\ Started(processBlockBegin([IdleCall EXCEPT !.op = "processBlock"], block))

\* An account_info exchange that is tried a second time when it fails.
accountInfoSettles_retry(c, lg, response) ==
  LET r == nanoRpcCall(response, FALSE)
  IN  IF r.t = "throw"
      THEN IF Len(lg) < 2 THEN getAccountInfoBegin(c, lg, c.account) ELSE Fail(c, lg, r.v)
      ELSE IF c.op = "getAccountInfo" THEN Succeed(c, lg, r.v)
      ELSE generateSendBlockResume(c, lg, r.v)

accountInfoSettles(c, lg, response) ==
  LET r == nanoRpcCall(response, FALSE)
  IN  IF r.t = "throw" THEN Fail(c, lg, r.v)
      ELSE IF c.op = "getAccountInfo" THEN Succeed(c, lg, r.v)
      ELSE generateSendBlockResume(c, lg, r.v)

AccountInfoSettles(response) ==
  /\ call.pc = "account_info"
  /\ CanEnd(call, response)
  /\ Resumed(accountInfoSettles(nanoRpcCallEnd(call, response), log, response))

processSettles(c, lg, response) ==
  LET r == nanoRpcCall(response, FALSE)
  IN  IF r.t = "throw" THEN Fail(c, lg, r.v) ELSE Succeed(c, lg, r.v)

ProcessSettles(response) ==
  /\ call.pc = "process"
  /\ CanEnd(call, response)
  /\ Resumed(processSettles(nanoRpcCallEnd(call, response), log, response))

\* A before-hook loop that catches a hook's failure and goes on.
beforeHookSettles_swallow(c, lg, effect) ==
  LET hook == beforeWorkGenerationHooks[c.i]
  IN  IF effect = "throw"
      THEN createBlockBefore(c, Append(lg, Event("before_threw", c.i, hook, Undefined)),
                             c.i + 1)
      ELSE createBlockBefore([c EXCEPT !.context = hookEffect(c.context, effect)],
                             Append(lg, Event("before_end", c.i, hook,
                                              Get(hookEffect(c.context, effect), "work"))),
                             c.i + 1)

beforeHookSettles(c, lg, effect) ==
  LET hook == beforeWorkGenerationHooks[c.i]
  IN  IF effect = "throw"
      THEN Fail(c, Append(lg, Event("before_threw", c.i, hook, Undefined)), HookError)
      ELSE createBlockBefore([c EXCEPT !.context = hookEffect(c.context, effect)],
                             Append(lg, Event("before_end", c.i, hook,
                                              Get(hookEffect(c.context, effect), "work"))),
                             c.i + 1)

BeforeHookSettles(effect) ==
  /\ call.pc = "before"
  /\ Resumed(beforeHookSettles(call, log, effect))

\* The token the generator or the node answered with, if it answered with one.
workAnswered(c, outcome) ==
  IF c.generator # Undefined
  THEN IF outcome = GeneratorRaises THEN "no_token" ELSE outcome
  ELSE IF nanoRpcCall(outcome, TRUE).t = "throw" THEN "no_token" ELSE outcome.body.work

\* A build that falls back on the work_generate RPC when the local generator
\* raises or its work does not pass the verification.
workSettles_fallback(c, lg, outcome) ==
  LET r == workGenerateResume(c, outcome)
      lg1 == Append(lg, Event("work_answer", 0,
                              IF c.generator # Undefined THEN "generator" ELSE "work_generate",
                              workAnswered(c, outcome)))
  IN  IF r.t = "throw"
      THEN IF c.generator # Undefined
           THEN workGenerateBegin([c EXCEPT !.generator = Undefined], lg1)
           ELSE Fail(c, lg1, r.v)
      ELSE createBlockAfter([c EXCEPT !.work = r.v], lg1, 1)

workSettles(c, lg, outcome) ==
  LET r == workGenerateResume(c, outcome)
      lg1 == Append(lg, Event("work_answer", 0,
                              IF c.generator # Undefined THEN "generator" ELSE "work_generate",
                              workAnswered(c, outcome)))
  IN  IF r.t = "throw" THEN Fail(c, lg1, r.v)
      ELSE createBlockAfter([c EXCEPT !.work = r.v], lg1, 1)

WorkSettles(outcome) ==
  /\ call.pc = "work"
  /\ call.generator = Undefined => CanEnd(call, outcome)
  /\ Resumed(workSettles(IF call.generator # Undefined THEN call ELSE nanoRpcCallEnd(call, outcome),
                         log, outcome))

\* An after-hook loop that wraps a hook's failure into a block-generation error.
afterHookSettles_wrap(c, lg, effect) ==
  LET hook == afterWorkGenerationHooks[c.i]
  IN  IF effect = "throw"
      THEN Fail(c, Append(lg, Event("after_threw", c.i, hook, Undefined)),
                ErrCausedBy(ERROR_BLOCK_GENERATION, "Error in hook", HookError))
      ELSE createBlockAfter([c EXCEPT !.context = hookEffect(c.context, effect)],
                            Append(lg, Event("after_end", c.i, hook,
                                             Get(hookEffect(c.context, effect), "work"))),
                            c.i + 1)

afterHookSettles(c, lg, effect) ==
  LET hook == afterWorkGenerationHooks[c.i]
  IN  IF effect = "throw"
      THEN Fail(c, Append(lg, Event("after_threw", c.i, hook, Undefined)), HookError)
      ELSE createBlockAfter([c EXCEPT !.context = hookEffect(c.context, effect)],
                            Append(lg, Event("after_end", c.i, hook,
                                             Get(hookEffect(c.context, effect), "work"))),
                            c.i + 1)

AfterHookSettles(effect) ==
  /\ call.pc = "after"
  /\ Resumed(afterHookSettles(call, log, effect))

(***************************************************************************)
(* The caller makes one call at a time: a method is called when no call is *)
(* in flight.                                                              *)
(***************************************************************************)
Next ==
  \/ CalculateBalanceAfterSend
  \/ Validate
  \/ Quiescent /\ \E url \in UrlInputs : SetNanoRpcUrl(url)
  \/ Quiescent /\ \E url \in UrlInputs : SetNanoWorkGenerationUrl(url)
  \/ Quiescent /\ \E privateKey \in KeyInputs : SetNanoAccountPrivateKey(privateKey)
  \/ Quiescent /\ ClearNanoAccountPrivateKey
  \/ Quiescent /\ \E g \in WorkGenerators \cup {NotAFunction} : SetCustomWorkGenerator(g)
  \/ Quiescent /\ \E hook \in Hooks : OnBeforeWorkGeneration(hook)
  \/ Quiescent /\ \E hook \in Hooks : OnAfterWorkGeneration(hook)
  \/ Quiescent /\ GetConfig
  \/ Quiescent /\ \E payTo \in PayTos, amount \in Amounts : GenerateSendBlock(payTo, amount)
  \/ Quiescent /\ \E account \in PayTos : GetAccountInfo(account)
  \/ Quiescent /\ ProcessBlock("a_block")
  \/ \E response \in AccountInfoResponses : AccountInfoSettles(response)
  \/ \E response \in ProcessResponses : ProcessSettles(response)
  \/ \E effect \in HookEffects : BeforeHookSettles(effect)
  \/ \E outcome \in (IF call.generator # Undefined THEN GeneratorOutcomes
                     ELSE WorkGenerateResponses) : WorkSettles(outcome)
  \/ \E effect \in HookEffects : AfterHookSettles(effect)

Spec == Init /\ [][Next]_vars

(***************************************************************************)
(* A pending timer fires: the request is aborted, fetch rejects.  The      *)
(* event loop runs every due timer, so this step is not put off forever;   *)
(* nothing obliges the node, a hook or a local generator to answer.        *)
(***************************************************************************)
Timeout ==
  \/ AccountInfoSettles(TimedOut)
  \/ ProcessSettles(TimedOut)
  \/ call.generator = Undefined /\ WorkSettles(TimedOut)

FairSpec == Spec /\ WF_vars(Timeout)

(***************************************************************************)
(* A Helper constructed with an RPC URL and a private key that are usable. *)
(***************************************************************************)
UsableConfigs ==
  {c \in CtorConfigs :
     /\ {NANO_RPC_URL, NANO_ACCOUNT_PRIVATE_KEY_PROPERTY} \subseteq DOMAIN c
     /\ \A f \in DOMAIN c : c[f] \in {SAMPLE_NANO_RPC_URL, SAMPLE_NANO_ACCOUNT_PRIVATE_KEY}}

InitUsable ==
  /\ constructed = TRUE
  /\ \E c \in UsableConfigs :
        /\ config = Constructor(c)
        /\ workUrlSupplied = (Get(c, NANO_WORK_GENERATION_URL) # Undefined)
  /\ peer = NoPeer
  /\ beforeWorkGenerationHooks = <<>>
  /\ afterWorkGenerationHooks = <<>>
  /\ workGenerator = Undefined
  /\ ret = NoReturn
  /\ call = IdleCall
  /\ log = <<>>
  /\ calc = [args |-> <<>>, out |-> NoResult]
  /\ validation = NoValidation
  /\ other = NoOther

(***************************************************************************)
(* Builds for an account whose frontier is LenientFrontier: a missing work *)
(* token passes the verification and the builder comes to its signing step *)
(* without work.                                                           *)
(***************************************************************************)
LenientAccountInfoResponses ==
  {[kind |-> "json", body |-> [NoBody EXCEPT !.frontier = LenientFrontier,
                                                 !.balance = b, !.representative = r]] :
     b \in Balances, r \in Representatives}

NextLenient ==
  \/ Quiescent /\ \E g \in WorkGenerators : SetCustomWorkGenerator(g)
  \/ Quiescent /\ \E hook \in Hooks : OnBeforeWorkGeneration(hook)
  \/ Quiescent /\ \E hook \in Hooks : OnAfterWorkGeneration(hook)
  \/ Quiescent /\ \E payTo \in PayTos, amount \in Amounts : GenerateSendBlock(payTo, amount)
  \/ \E response \in LenientAccountInfoResponses : AccountInfoSettles(response)
  \/ \E effect \in HookEffects : BeforeHookSettles(effect)
  \/ \E outcome \in (IF call.generator # Undefined THEN GeneratorOutcomes
                     ELSE WorkGenerateResponses) : WorkSettles(outcome)
  \/ \E effect \in HookEffects : AfterHookSettles(effect)

SpecLenient == InitUsable /\ [][NextLenient]_vars

(***************************************************************************)
(* A Helper on which two different hooks are registered, in any order and  *)
(* any number of times, between calls of its other methods.                *)
(***************************************************************************)
TwoHooks == {"hook", "hook_2"}
AnsweredAccountInfo ==
  {[kind |-> "network", body |-> NoBody],
   [kind |-> "json", body |-> [NoBody EXCEPT !.frontier = "F1", !.balance = <<1>>,
                                                 !.representative = "nano_rep"]]}
AnsweredWork == {"w_F1", "w_bad"}

NextHooks ==
  \/ Quiescent /\ \E hook \in TwoHooks : OnBeforeWorkGeneration(hook)
  \/ Quiescent /\ \E hook \in TwoHooks : OnAfterWorkGeneration(hook)
  \/ Quiescent /\ SetNanoRpcUrl(InvalidUrl)
  \/ Quiescent /\ SetNanoWorkGenerationUrl(SAMPLE_NANO_RPC_URL)
  \/ Quiescent /\ SetNanoAccountPrivateKey(SAMPLE_NANO_ACCOUNT_PRIVATE_KEY)
  \/ Quiescent /\ ClearNanoAccountPrivateKey
  \/ Quiescent /\ SetCustomWorkGenerator("generator_1")
  \/ Quiescent /\ GetConfig
  \/ Quiescent /\ GenerateSendBlock("nano_payee", <<1>>)
  \/ Quiescent /\ GetAccountInfo("nano_payee")
  \/ Quiescent /\ ProcessBlock("a_block")
  \/ \E response \in AnsweredAccountInfo : AccountInfoSettles(response)
  \/ \E response \in FailedResponses : ProcessSettles(response)
  \/ \E effect \in {"ok", "throw"} : BeforeHookSettles(effect)
  \/ \E work \in AnsweredWork :
        WorkSettles(IF call.generator # Undefined THEN work
                    ELSE [kind |-> "json", body |-> [NoBody EXCEPT !.work = work]])
  \/ \E effect \in {"ok", "throw"} : AfterHookSettles(effect)

SpecHooks == InitUsable /\ [][NextHooks]_vars

(***************************************************************************)
(* A second generateSendBlock call on the same Helper, made while the      *)
(* first is in flight.  It runs the same code on the same Helper fields;   *)
(* its parameters, locals, hook context, timer and result are its own.     *)
(***************************************************************************)
OtherResumed(s) ==
  /\ other' = s
  /\ UNCHANGED <<constructed, helperVars, ret, call, log, calc, workUrlSupplied, peer,
                 validation>>

OtherGenerateSendBlock(payTo, amount) ==
  /\ constructed
  /\ ~Quiescent
  /\ other.call.pc \in {"idle", "done"}
  /\ OtherResumed(generateSendBlockBegin(
       [IdleCall EXCEPT !.op = "generateSendBlock", !.payTo = payTo, !.amount = amount]))

OtherAccountInfoSettles(response) ==
  /\ other.call.pc = "account_info"
  /\ CanEnd(other.call, response)
  /\ OtherResumed(accountInfoSettles(nanoRpcCallEnd(other.call, response), other.log,
                                     response))

\* A build whose hook context is one object shared by all builds of the
\* Helper: what a hook of the second call does shows in the first call's.
OtherBeforeHookSettles_sharedContext(effect) ==
  /\ other.call.pc = "before"
  /\ other' = beforeHookSettles(other.call, other.log, effect)
  /\ call' = IF call.pc \in {"before", "work", "after"}
             THEN [call EXCEPT !.context = hookEffect(call.context, effect)] ELSE call
  /\ UNCHANGED <<constructed, helperVars, ret, log, calc, workUrlSupplied, peer, validation>>

OtherBeforeHookSettles(effect) ==
  /\ other.call.pc = "before"
  /\ OtherResumed(beforeHookSettles(other.call, other.log, effect))

OtherWorkSettles(outcome) ==
  /\ other.call.pc = "work"
  /\ other.call.generator = Undefined => CanEnd(other.call, outcome)
  /\ OtherResumed(workSettles(IF other.call.generator # Undefined THEN other.call
                              ELSE nanoRpcCallEnd(other.call, outcome),
                              other.log, outcome))

OtherAfterHookSettles(effect) ==
  /\ other.call.pc = "after"
  /\ OtherResumed(afterHookSettles(other.call, other.log, effect))

AccountInfoOutcomes == AnsweredAccountInfo \cup {TimedOut}
WorkOutcomes(c) ==
  IF c.generator # Undefined THEN AnsweredWork
  ELSE {[kind |-> "json", body |-> [NoBody EXCEPT !.work = "w_F1"]], TimedOut}
Tampering == {"ok", "tamper"}

NextTwoCalls ==
  \/ Quiescent /\ other.call.pc = "idle" /\ OnBeforeWorkGeneration("hook")
  \/ Quiescent /\ other.call.pc = "idle" /\ OnAfterWorkGeneration("hook")
  \/ Quiescent /\ other.call.pc = "idle" /\ SetCustomWorkGenerator("generator_1")
  \/ Quiescent /\ GenerateSendBlock("nano_payee", <<1>>)
  \/ \E response \in AccountInfoOutcomes : AccountInfoSettles(response)
  \/ \E effect \in Tampering : BeforeHookSettles(effect)
  \/ \E outcome \in WorkOutcomes(call) : WorkSettles(outcome)
  \/ \E effect \in Tampering : AfterHookSettles(effect)
  \/ OtherGenerateSendBlock("nano_payee", <<1>>)
  \/ \E response \in AccountInfoOutcomes : OtherAccountInfoSettles(response)
  \/ \E effect \in Tampering : OtherBeforeHookSettles(effect)
  \/ \E outcome \in WorkOutcomes(other.call) : OtherWorkSettles(outcome)
  \/ \E effect \in Tampering : OtherAfterHookSettles(effect)

SpecTwoCalls == InitUsable /\ [][NextTwoCalls]_vars

(***************************************************************************)
(* One build, with the caller (or a hook of the build) calling the Helper  *)
(* while the build is suspended: it clears and sets the private key and    *)
(* registers LateHook.  Hooks registered before the build are "hook".      *)
(***************************************************************************)
LateHook == "hook_late"

NextInFlight ==
  \/ call.pc = "idle" /\ OnBeforeWorkGeneration("hook")
  \/ call.pc = "idle" /\ OnAfterWorkGeneration("hook")
  \/ call.pc = "idle" /\ GenerateSendBlock("nano_payee", <<1>>)
  \/ ~Quiescent /\ OnBeforeWorkGeneration(LateHook)
  \/ ~Quiescent /\ OnAfterWorkGeneration(LateHook)
  \/ ~Quiescent /\ ClearNanoAccountPrivateKey
  \/ ~Quiescent /\ \E privateKey \in {SAMPLE_NANO_ACCOUNT_PRIVATE_KEY,
                                       SAMPLE_NANO_ACCOUNT_PRIVATE_KEY_2} :
                       SetNanoAccountPrivateKey(privateKey)
  \/ \E response \in AnsweredAccountInfo : AccountInfoSettles(response)
  \/ \E effect \in {"ok", "throw"} : BeforeHookSettles(effect)
  \/ \E outcome \in WorkOutcomes(call) : WorkSettles(outcome)
  \/ \E effect \in {"ok", "throw"} : AfterHookSettles(effect)

SpecInFlight == InitUsable /\ [][NextInFlight]_vars

(***************************************************************************)
(* A program with two Helpers.  The constructor stores the reference to    *)
(* the object it is given (this.config = config), so two Helpers           *)
(* constructed from one object have that one object as their config, and   *)
(* what either writes the other reads.  The second Helper's methods are    *)
(* the same code acting on its config.                                     *)
(***************************************************************************)
TwoHelperConfigs ==
  {c \in CtorConfigs :
     \A f \in DOMAIN c : c[f] \in {SAMPLE_NANO_RPC_URL, SAMPLE_NANO_ACCOUNT_PRIVATE_KEY}}

InitTwoHelpers ==
  /\ constructed = TRUE
  /\ \E c \in TwoHelperConfigs :
        /\ workUrlSupplied = (Get(c, NANO_WORK_GENERATION_URL) # Undefined)
        /\ \/ /\ config = Constructor(Constructor(c))
              /\ peer = [exists |-> TRUE, sameObject |-> TRUE, config |-> EmptyObject,
                          original |-> c]
           \/ /\ config = Constructor(c)
              /\ \E c2 \in TwoHelperConfigs :
                    peer = [exists |-> TRUE, sameObject |-> FALSE,
                            config |-> Constructor(c2), original |-> c2]
  /\ beforeWorkGenerationHooks = <<>>
  /\ afterWorkGenerationHooks = <<>>
  /\ workGenerator = Undefined
  /\ ret = NoReturn
  /\ call = IdleCall
  /\ log = <<>>
  /\ calc = [args |-> <<>>, out |-> NoResult]
  /\ validation = NoValidation
  /\ other = NoOther

PeerConfig == IF peer.sameObject THEN config ELSE peer.config

PeerWrites(cfg) ==
  /\ IF peer.sameObject
     THEN config' = cfg /\ UNCHANGED peer
     ELSE peer' = [peer EXCEPT !.config = cfg] /\ UNCHANGED config
  /\ UNCHANGED <<constructed, beforeWorkGenerationHooks, afterWorkGenerationHooks,
                 workGenerator, ret, call, log, calc, workUrlSupplied, validation, other>>

PeerSetNanoWorkGenerationUrl(url) ==
  /\ peer.exists
  /\ PeerWrites(IF validateNanoWorkGenerationUrl(url, TRUE).t = "throw" THEN PeerConfig
                ELSE Put(PeerConfig, NANO_WORK_GENERATION_URL, url))

PeerSetNanoAccountPrivateKey(privateKey) ==
  /\ peer.exists
  /\ PeerWrites(setNanoAccountPrivateKey(PeerConfig, privateKey).config)

PeerClearNanoAccountPrivateKey ==
  /\ peer.exists
  /\ PeerWrites(clearNanoAccountPrivateKey(PeerConfig))

NextTwoHelpers ==
  \/ \E url \in UrlInputs : SetNanoRpcUrl(url)
  \/ \E url \in UrlInputs : SetNanoWorkGenerationUrl(url)
  \/ \E privateKey \in KeyInputs : SetNanoAccountPrivateKey(privateKey)
  \/ ClearNanoAccountPrivateKey
  \/ GetConfig
  \/ \E url \in UrlInputs : PeerSetNanoWorkGenerationUrl(url)
  \/ \E privateKey \in KeyInputs : PeerSetNanoAccountPrivateKey(privateKey)
  \/ PeerClearNanoAccountPrivateKey

SpecTwoHelpers == InitTwoHelpers /\ [][NextTwoHelpers]_vars

(***************************************************************************)
(* Vocabulary of the properties.                                           *)
(***************************************************************************)
StoredKey == Get(config, NANO_ACCOUNT_PRIVATE_KEY_PROPERTY)
KeySet == ~Falsy(StoredKey)
Usable(url) == ~Falsy(url) /\ URLsafeParse(url)
RpcUrlUsable == Usable(Get(config, NANO_RPC_URL))
WorkUrlUsable == Usable(Get(config, NANO_WORK_GENERATION_URL))
KeyUsable == KeySet /\ HEX_64safeParse(StoredKey)
FailsWith(result, kind) == result.t = "throw" /\ result.v.kind = kind

\* The number a decimal string denotes, digit by digit.
RECURSIVE Pow10(_)
Pow10(n) == IF n = 0 THEN 1 ELSE 10 * Pow10(n - 1)
RECURSIVE SumTo(_, _)
SumTo(s, n) == IF n = 0 THEN 0 ELSE SumTo(s, n - 1) + s[n] * Pow10(Len(s) - n)
Value(s) == SumTo(s, Len(s))
Canonical(s) ==
  /\ Len(s) >= 1
  /\ \A k \in 1..Len(s) : s[k] \in 0..9
  /\ Len(s) > 1 => s[1] # 0

EventsOf(kinds) == {p \in 1..Len(log) : log[p].ev \in kinds}

\* A step of a method leaves the method's name in ret (synchronous methods)
\* or in call (asynchronous ones); the properties below look at the named
\* action only in steps that do.
Called(op) == ret'.op = op
Began(op) == ret' = NoReturn /\ call'.op = op

(***************************************************************************)
(* C1: while a private key is stored, setNanoAccountPrivateKey(v) fails    *)
(* with a configuration error for every v and leaves the stored key as it  *)
(* was; and no single operation replaces a stored key by a different key   *)
(* (the key has to be cleared in between).                                 *)
(***************************************************************************)
C1_KeyImmutableUntilCleared ==
  [][ /\ \A v \in KeyInputs :
           (KeySet /\ Called("setNanoAccountPrivateKey") /\ SetNanoAccountPrivateKey(v))
             => (FailsWith(ret', ERROR_CONFIG) /\ StoredKey' = StoredKey)
      /\ (KeySet /\ KeySet') => StoredKey' = StoredKey ]_vars

C1_Witness ==
  /\ ret.op = "setNanoAccountPrivateKey"
  /\ ret.t = "throw"
  /\ ret.v.msg = "Nano account private key already set"
  /\ StoredKey = SAMPLE_NANO_ACCOUNT_PRIVATE_KEY

(***************************************************************************)
(* C2: clearNanoAccountPrivateKey() returns normally from the no-key and   *)
(* from the key-set state and leaves no key stored; from the no-key state  *)
(* it leaves, setNanoAccountPrivateKey(v) with a format-valid v returns    *)
(* normally and leaves v stored.                                           *)
(***************************************************************************)
C2_ClearThenSet ==
  [][ /\ ClearNanoAccountPrivateKey => (ret'.t = "return" /\ ~KeySet')
      /\ \A v \in KeyInputs :
           (HEX_64safeParse(v) /\ ~KeySet /\ Called("setNanoAccountPrivateKey")
              /\ SetNanoAccountPrivateKey(v))
             => (ret'.t = "return" /\ StoredKey' = v) ]_vars

C2_Witness ==
  /\ ret.op = "setNanoAccountPrivateKey"
  /\ ret.t = "return"
  /\ StoredKey = SAMPLE_NANO_ACCOUNT_PRIVATE_KEY_2
  /\ NANO_WORK_GENERATION_URL \notin DOMAIN config

(***************************************************************************)
(* C3: what getConfig() returns has no private-key property and no value   *)
(* equal to the stored key, and has every other property of the            *)
(* configuration with its value.                                           *)
(***************************************************************************)
C3_GetConfigHidesKey ==
  [][ GetConfig =>
        /\ ret'.t = "return"
        /\ NANO_ACCOUNT_PRIVATE_KEY_PROPERTY \notin DOMAIN ret'.v
        /\ KeySet => \A f \in DOMAIN ret'.v : ret'.v[f] # StoredKey
        /\ DOMAIN ret'.v = (DOMAIN config) \ {NANO_ACCOUNT_PRIVATE_KEY_PROPERTY}
        /\ \A f \in DOMAIN ret'.v : ret'.v[f] = config[f] ]_vars

C3_Witness ==
  /\ ret.op = "getConfig"
  /\ StoredKey = SAMPLE_NANO_ACCOUNT_PRIVATE_KEY
  /\ DOMAIN ret.v = {NANO_RPC_URL, NANO_WORK_GENERATION_URL}
  /\ ret.v[NANO_RPC_URL] = SAMPLE_NANO_RPC_URL
  /\ ret.v[NANO_WORK_GENERATION_URL] = SAMPLE_NANO_RPC_URL_2

(***************************************************************************)
(* C4: generateSendBlock called with an unusable RPC URL, private key or   *)
(* work-generation URL ends at once with a configuration error, having     *)
(* sent no request and invoked no hook and no generator; so do             *)
(* getAccountInfo and processBlock called with an unusable RPC URL.        *)
(***************************************************************************)
FailedFast == call'.pc = "done" /\ FailsWith(call'.result, ERROR_CONFIG) /\ log' = <<>>

C4_FailFast ==
  [][ /\ \A payTo \in PayTos, amount \in Amounts :
           (~(RpcUrlUsable /\ KeyUsable /\ WorkUrlUsable) /\ Began("generateSendBlock")
              /\ GenerateSendBlock(payTo, amount)) => FailedFast
      /\ \A account \in PayTos :
           (~RpcUrlUsable /\ Began("getAccountInfo") /\ GetAccountInfo(account)) => FailedFast
      /\ (~RpcUrlUsable /\ Began("processBlock") /\ ProcessBlock("a_block"))
           => FailedFast ]_vars

C4_Witness ==
  /\ call.op = "generateSendBlock"
  /\ call.pc = "done"
  /\ FailsWith(call.result, ERROR_CONFIG)
  /\ call.result.v.msg = "NANO_WORK_GENERATION_URL is not a valid URL"
  /\ log = <<>>

(***************************************************************************)
(* C5: for decimal strings a, b denoting numbers a >= b,                   *)
(* calculateBalanceAfterSend(a, b) returns the canonical decimal string    *)
(* (digits only, no leading zero) of exactly a - b.                        *)
(***************************************************************************)
C5_ExactDifference ==
  (calc.out.t # "none" /\ Value(calc.args[1]) >= Value(calc.args[2]))
    => /\ calc.out.t = "return"
       /\ Canonical(calc.out.v)
       /\ Value(calc.out.v) = Value(calc.args[1]) - Value(calc.args[2])

C5_Witness ==
  /\ calc.args = << <<1, 0, 0>>, <<0, 0, 1>> >>
  /\ calc.out.t = "return"
  /\ calc.out.v = <<9, 9>>

\* The answer to account_info has arrived in a generateSendBlock call.
Fetched == call.op = "generateSendBlock" /\ call.info.representative # Undefined
OnlyAccountInfoHappened == Len(log) = 1 /\ log[1].ev = "account_info"
HooksAndGeneratorInstalled ==
  /\ Len(beforeWorkGenerationHooks) > 0
  /\ Len(afterWorkGenerationHooks) > 0
  /\ workGenerator # Undefined

(***************************************************************************)
(* C6: for decimal strings a, b denoting numbers b > a,                    *)
(* calculateBalanceAfterSend(a, b) throws an insufficient-balance error    *)
(* and returns no value; a generateSendBlock call whose amount exceeds the *)
(* fetched balance of an opened account ends with that error, having       *)
(* invoked no hook, requested no PoW and signed nothing.                   *)
(***************************************************************************)
C6_InsufficientBalance ==
  /\ (calc.out.t # "none" /\ Value(calc.args[2]) > Value(calc.args[1]))
       => FailsWith(calc.out, ERROR_INSUFFICIENT_NANO_BALANCE)
  /\ (Fetched /\ ~Falsy(call.info.frontier) /\ Value(call.amount) > Value(call.info.balance))
       => /\ call.pc = "done"
          /\ FailsWith(call.result, ERROR_INSUFFICIENT_NANO_BALANCE)
          /\ OnlyAccountInfoHappened

C6_Witness ==
  /\ call.pc = "done"
  /\ FailsWith(call.result, ERROR_INSUFFICIENT_NANO_BALANCE)
  /\ call.amount = <<0, 2>>
  /\ call.info.balance = <<1>>
  /\ HooksAndGeneratorInstalled

(***************************************************************************)
(* C7: when the k-th before-hook throws, nothing more happens in the       *)
(* build: no later before-hook is invoked, no PoW is requested from the    *)
(* node or the local generator, no after-hook runs, nothing is signed, and *)
(* the call ends with the hook's own error.                                *)
(***************************************************************************)
C7_BeforeHookFailureAborts ==
  \A p \in EventsOf({"before_threw"}) :
     /\ p = Len(log)
     /\ call.pc = "done"
     /\ call.result = Throw(HookError)
     /\ EventsOf({"generator", "work_generate", "work_answer", "after", "sign"}) = {}
     /\ \A q \in EventsOf({"before"}) : log[q].i <= log[p].i

C7_Witness ==
  /\ \E p \in EventsOf({"before_threw"}) : log[p].i = 1
  /\ Len(beforeWorkGenerationHooks) = 2
  /\ Len(afterWorkGenerationHooks) > 0

(***************************************************************************)
(* C8: when the k-th after-hook throws, nothing more happens in the build: *)
(* no later after-hook is invoked, nothing is signed, no block is          *)
(* returned, and the call ends with the hook's own error.                  *)
(***************************************************************************)
C8_AfterHookFailureAborts ==
  \A p \in EventsOf({"after_threw"}) :
     /\ p = Len(log)
     /\ call.pc = "done"
     /\ call.result = Throw(HookError)
     /\ EventsOf({"sign"}) = {}
     /\ \A q \in EventsOf({"after"}) : log[q].i <= log[p].i

C8_Witness ==
  /\ \E p \in EventsOf({"after_threw"}) : log[p].i = 1
  /\ Len(afterWorkGenerationHooks) = 2

(***************************************************************************)
(* C9: a work token answered by the node or by the local generator that    *)
(* fails verification for the hash it was requested for ends the build     *)
(* with a work-generation error, with no after-hook invoked and nothing    *)
(* signed; a returned block carries work that was answered in this build   *)
(* and verifies for the block's previous.                                  *)
(***************************************************************************)
C9_OnlyVerifiedWork ==
  /\ \A p \in EventsOf({"work_answer"}) :
        (log[p].what # "no_token" /\ ~verifyWork(call.previous, log[p].what))
          => /\ p = Len(log)
             /\ call.pc = "done"
             /\ FailsWith(call.result, ERROR_NANO_WORK_GENERATION)
             /\ EventsOf({"after", "sign"}) = {}
  /\ (call.op = "generateSendBlock" /\ call.pc = "done" /\ call.result.t = "return")
        => /\ verifyWork(call.result.v.previous, call.result.v.work)
           /\ \E p \in EventsOf({"work_answer"}) : log[p].what = call.result.v.work
           /\ \A q \in EventsOf({"generator", "work_generate"}) :
                 log[q].what = call.result.v.previous

C9_Witness ==
  /\ \E p \in EventsOf({"work_answer"}) :
        log[p].who = "work_generate" /\ log[p].what = "w_F2"
  /\ call.previous = "F1"
  /\ Len(afterWorkGenerationHooks) > 0

(***************************************************************************)
(* C10: when the answer to account_info carries no frontier, the           *)
(* generateSendBlock call ends with a block-generation error, having       *)
(* invoked no hook, requested no PoW and signed nothing, also when the     *)
(* amount exceeds the fetched balance.                                     *)
(***************************************************************************)
C10_NoFrontier ==
  (Fetched /\ Falsy(call.info.frontier))
    => /\ call.pc = "done"
       /\ FailsWith(call.result, ERROR_BLOCK_GENERATION)
       /\ OnlyAccountInfoHappened

C10_Witness ==
  /\ Fetched
  /\ Falsy(call.info.frontier)
  /\ Value(call.amount) > Value(call.info.balance)
  /\ FailsWith(call.result, ERROR_BLOCK_GENERATION)
  /\ HooksAndGeneratorInstalled

\* The event just before position p of the log, and the steps of a build.
Before(p) == log[p - 1]
PowRequests == {"generator", "work_generate"}
HookStarts == {"before", "after"}
Ended(ev) == IF ev = "before" THEN "before_end" ELSE "after_end"
StartOf(ev) == IF ev \in {"before_end", "before_threw"} THEN "before" ELSE "after"
Registry(ev) ==
  IF ev = "before" THEN beforeWorkGenerationHooks ELSE afterWorkGenerationHooks
\* What must have just happened when the first hook of a loop, or the step
\* after the loop, begins.
AfterFetch(e) == e.ev = "account_info"
AfterVerifiedWork(e) == e.ev = "work_answer" /\ verifyWork(call.previous, e.what)
LoopDone(e, ev) == e.ev = Ended(ev) /\ e.i = Len(Registry(ev))

(***************************************************************************)
(* C11: in one build the steps happen one after the other in this order:   *)
(* the before-hooks in registration order, each invoked once and only when *)
(* the one before it has completed; one PoW request, made when the last    *)
(* before-hook has completed; the answer and its verification; the         *)
(* after-hooks in registration order, each invoked once and only when the  *)
(* one before it has completed; one signing, when the last after-hook has  *)
(* completed.                                                              *)
(***************************************************************************)
C11_StepsInOrder ==
  call.op = "generateSendBlock" =>
    \A p \in 1..Len(log) :
       LET e == log[p] IN
       /\ e.ev = "account_info" <=> p = 1
       /\ e.ev \in HookStarts =>
             /\ e.i \in 1..Len(Registry(e.ev))
             /\ e.who = Registry(e.ev)[e.i]
             /\ \A q \in 1..Len(log) : (log[q].ev = e.ev /\ log[q].i = e.i) => q = p
             /\ IF e.i > 1 THEN Before(p).ev = Ended(e.ev) /\ Before(p).i = e.i - 1
                ELSE IF e.ev = "before" THEN AfterFetch(Before(p))
                ELSE AfterVerifiedWork(Before(p))
       /\ e.ev \in {"before_end", "before_threw", "after_end", "after_threw"} =>
             /\ Before(p).ev = StartOf(e.ev)
             /\ Before(p).i = e.i
       /\ e.ev \in PowRequests =>
             /\ EventsOf(PowRequests) = {p}
             /\ IF Len(beforeWorkGenerationHooks) = 0 THEN AfterFetch(Before(p))
                ELSE LoopDone(Before(p), "before")
       /\ e.ev = "work_answer" =>
             /\ EventsOf({"work_answer"}) = {p}
             /\ Before(p).ev \in PowRequests
       /\ e.ev = "sign" =>
             /\ EventsOf({"sign"}) = {p}
             /\ p = Len(log)
             /\ IF Len(afterWorkGenerationHooks) = 0 THEN AfterVerifiedWork(Before(p))
                ELSE LoopDone(Before(p), "after")

C11_Witness ==
  /\ call.pc = "done"
  /\ call.result.t = "return"
  /\ Len(log) = 12
  /\ log[5].ev = "before_end" /\ log[5].i = 2
  /\ log[6].ev = "generator"
  /\ log[11].ev = "after_end" /\ log[11].i = 2
  /\ log[12].ev = "sign"

(***************************************************************************)
(* C12 as stated: every before-hook is invoked with a context that has no  *)
(* work, and every after-hook with a context whose work is the token just  *)
(* produced and verified, whatever earlier hooks did to context.work.      *)
(***************************************************************************)
C12_AsStated ==
  /\ \A p \in EventsOf({"before"}) : log[p].what = Undefined
  /\ \A p \in EventsOf({"after"}) :
        log[p].what = call.work /\ verifyWork(call.previous, log[p].what)

(***************************************************************************)
(* C12: the first before-hook is invoked with a context that has no work,  *)
(* and every later before-hook with context.work as the before-hook before *)
(* it left it (the builder itself puts no work there before the PoW);      *)
(* every after-hook is invoked with a context whose work is the token that *)
(* was answered in this build and verifies for previous, whatever earlier  *)
(* hooks did to context.work.                                              *)
(***************************************************************************)
C12_ContextWork ==
  /\ \A p \in EventsOf({"before"}) :
        log[p].what = IF log[p].i = 1 THEN Undefined ELSE Before(p).what
  /\ \A p \in EventsOf({"after"}) :
        /\ log[p].what = call.work
        /\ verifyWork(call.previous, log[p].what)
        /\ \E q \in EventsOf({"work_answer"}) : q < p /\ log[q].what = log[p].what

C12_Witness ==
  /\ \E p \in EventsOf({"before"}) : log[p].i = 2 /\ log[p].what = "w_bad"
  /\ \E p \in EventsOf({"after_end"}) : log[p].i = 1 /\ log[p].what = "w_bad"
  /\ \E p \in EventsOf({"after"}) : log[p].i = 2 /\ log[p].what = "w_F1"

\* A generateSendBlock call has returned a block.
Built == call.op = "generateSendBlock" /\ call.pc = "done" /\ call.result.t = "return"
CryptographicInputs == {"representative", "balance", "link", "previous"}

(***************************************************************************)
(* C13 as stated: the PoW is requested for the previous the context holds  *)
(* when the request is made, and the signed block has the representative,  *)
(* balance, link and previous the context holds when it is signed.         *)
(***************************************************************************)
C13_AsStated ==
  /\ call.pc = "work" => log[Len(log)].what = call.context["previous"]
  /\ Built => \A f \in CryptographicInputs : call.result.v[f] = call.context[f]

(***************************************************************************)
(* C13: whatever hooks do to the context, the PoW is requested for the     *)
(* frontier that account_info answered, and the signed block has that      *)
(* frontier as previous, the answered representative, the payTo of the     *)
(* call as link and the answered balance minus the amount as balance.      *)
(***************************************************************************)
C13_InputsFixedBeforeHooks ==
  /\ \A p \in EventsOf(PowRequests) : log[p].what = call.info.frontier
  /\ Built =>
        /\ call.result.v.previous = call.info.frontier
        /\ call.result.v.representative = call.info.representative
        /\ call.result.v.link = call.payTo
        /\ call.result.v.balance = calculateBalanceAfterSend(call.info.balance, call.amount).v

C13_Witness ==
  /\ Built
  /\ call.context["previous"] = "F2"
  /\ call.result.v.previous = "F1"
  /\ \E p \in EventsOf({"before_end"}) : log[p].what = "w_bad"

\* The URLs of the configuration.
RpcUrl == Get(config, NANO_RPC_URL)
WorkUrl == Get(config, NANO_WORK_GENERATION_URL)

(***************************************************************************)
(* C14 as stated: a Helper constructed without a work-generation URL has   *)
(* the RPC URL it was constructed with as its work-generation URL; every   *)
(* successful setNanoRpcUrl(u) on a Helper to which no work-generation URL *)
(* was ever supplied leaves the work-generation URL equal to u; and a      *)
(* supplied work-generation URL is never changed by setNanoRpcUrl.         *)
(***************************************************************************)
Fresh == constructed /\ ret = NoReturn /\ call = IdleCall

C14_AsStated ==
  [][ /\ (Fresh /\ ~workUrlSupplied) => WorkUrl = RpcUrl
      /\ \A u \in UrlInputs :
            (SetNanoRpcUrl(u) /\ ret'.t = "return") =>
               /\ ~workUrlSupplied => WorkUrl' = u
               /\ workUrlSupplied => WorkUrl' = WorkUrl ]_vars

\* The error nanoRpcCall throws when it fails, for each value of isGeneratingWork.
RpcConnectionError == Err(ERROR_NANO_RPC_CONNECTION, "Could not connect to Nano RPC URL")
WorkConnectionError ==
  Err(ERROR_NANO_WORK_GENERATION, "Could not connect to Nano Work Generation URL")

(***************************************************************************)
(* C15: whatever made an RPC exchange fail (transport failure, abort at    *)
(* the timeout, non-success status, unparsable body, error field in the    *)
(* body), the call ends with one error fixed by isGeneratingWork alone:    *)
(* the RPC-connection error for account_info and process, and for          *)
(* work_generate the work-generation error wrapped by workGenerate, whose  *)
(* cause is the fixed work-connection message; nothing of what was caught  *)
(* is in it.                                                               *)
(***************************************************************************)
C15_FailureClassifiedByFlagOnly ==
  call.caught.t = "throw" =>
    /\ call.pc = "done"
    /\ call.result =
         Throw(IF log[Len(log)].ev = "work_answer"
               THEN ErrCausedBy(ERROR_NANO_WORK_GENERATION, "Error during work generation",
                                WorkConnectionError)
               ELSE RpcConnectionError)
    /\ call.caught.v.msg \notin {call.result.v.msg, call.result.v.cause}

C15_Witness ==
  /\ call.op = "getAccountInfo"
  /\ call.caught.t = "throw"
  /\ call.caught.v.msg = "Account not found"
  /\ call.result = Throw(RpcConnectionError)

\* An RPC exchange is in progress.
AwaitingRpc ==
  \/ call.pc \in {"account_info", "process"}
  \/ call.pc = "work" /\ call.generator = Undefined

(***************************************************************************)
(* C16: while an RPC exchange is in progress a timer is pending, of 60     *)
(* seconds for account_info and process and of 300 seconds for             *)
(* work_generate; when it fires the request is aborted and the call ends   *)
(* with the classified error; so every RPC exchange comes to an end.       *)
(***************************************************************************)
C16_RpcCallsEnd ==
  /\ [](AwaitingRpc =>
          call.timer = IF call.pc = "work" THEN 300 * ONE_SECOND ELSE 60 * ONE_SECOND)
  /\ [][(AwaitingRpc /\ Timeout) =>
          /\ call'.pc = "done"
          /\ call'.timer = 0
          /\ IF call.pc = "work"
             THEN FailsWith(call'.result, ERROR_NANO_WORK_GENERATION)
             ELSE call'.result = Throw(RpcConnectionError)]_vars
  /\ (AwaitingRpc ~> ~AwaitingRpc)

C16_Witness ==
  /\ call.caught.t = "throw"
  /\ call.caught.v.msg = "This operation was aborted"
  /\ \E p \in EventsOf({"work_answer"}) : log[p].who = "work_generate"
  /\ call.timer = 0

(***************************************************************************)
(* C17: when the local work generator raises a failure, the build ends     *)
(* there with a work-generation error that carries the message of the      *)
(* generator's failure; no work is taken, no after-hook is invoked and     *)
(* nothing is signed.                                                      *)
(***************************************************************************)
C17_GeneratorFailure ==
  \A p \in EventsOf({"work_answer"}) :
     (log[p].who = "generator" /\ log[p].what = "no_token")
       => /\ p = Len(log)
          /\ call.pc = "done"
          /\ FailsWith(call.result, ERROR_NANO_WORK_GENERATION)
          /\ call.result.v.msg = "Error during custom work generation"
          /\ call.result.v.cause = GeneratorError.msg
          /\ call.work = Undefined
          /\ EventsOf({"after", "sign"}) = {}

C17_Witness ==
  /\ \E p \in EventsOf({"work_answer"}) :
        log[p].who = "generator" /\ log[p].what = "no_token"
  /\ \E p \in EventsOf({"generator"}) : log[p].who = "generator_2"
  /\ Len(afterWorkGenerationHooks) = 2
  /\ KeyUsable

\* A step of a method of the first Helper, of the second Helper.
FirstHelperActs ==
  \/ \E url \in UrlInputs : SetNanoRpcUrl(url) \/ SetNanoWorkGenerationUrl(url)
  \/ \E privateKey \in KeyInputs : SetNanoAccountPrivateKey(privateKey)
  \/ ClearNanoAccountPrivateKey
  \/ GetConfig
SecondHelperActs ==
  \/ \E url \in UrlInputs : PeerSetNanoWorkGenerationUrl(url)
  \/ \E privateKey \in KeyInputs : PeerSetNanoAccountPrivateKey(privateKey)
  \/ PeerClearNanoAccountPrivateKey

(***************************************************************************)
(* C18 as stated: with two Helpers, however constructed, a method of one   *)
(* leaves the configuration and the key of the other as they were; and     *)
(* right after construction the object a Helper was constructed from is as *)
(* the caller made it.                                                     *)
(***************************************************************************)
C18_AsStated ==
  /\ PeerConfig = peer.original
  /\ [][ /\ FirstHelperActs => PeerConfig' = PeerConfig
         /\ SecondHelperActs => config' = config ]_vars

(***************************************************************************)
(* C19 as stated: setCustomWorkGenerator given something that is not a     *)
(* work-generator function fails with a configuration error.               *)
(***************************************************************************)
C19_AsStated ==
  [][ \A g \in WorkGenerators \cup {NotAFunction} :
        (~WORK_GENERATORsafeParse(g) /\ Called("setCustomWorkGenerator")
           /\ SetCustomWorkGenerator(g))
          => FailsWith(ret', ERROR_CONFIG) ]_vars

(***************************************************************************)
(* C19: setCustomWorkGenerator given something that is not a               *)
(* work-generator function fails with a work-generation error and leaves   *)
(* the installed generator as it was; given a work-generator function it   *)
(* returns and installs it.                                                *)
(***************************************************************************)
C19_InvalidGeneratorRejected ==
  [][ \A g \in WorkGenerators \cup {NotAFunction} :
        (Called("setCustomWorkGenerator") /\ SetCustomWorkGenerator(g)) =>
          IF WORK_GENERATORsafeParse(g)
          THEN ret'.t = "return" /\ workGenerator' = g
          ELSE /\ FailsWith(ret', ERROR_NANO_WORK_GENERATION)
               /\ ret'.v.msg = "Custom work generator is not valid"
               /\ workGenerator' = workGenerator ]_vars

C19_Witness ==
  /\ ret.op = "setCustomWorkGenerator"
  /\ FailsWith(ret, ERROR_NANO_WORK_GENERATION)
  /\ workGenerator = "generator_1"

\* The requests a call has made: RPC requests and calls of the local generator.
Requests == EventsOf({"account_info", "process"} \cup PowRequests)

(***************************************************************************)
(* C20: a generateSendBlock call makes at most one account_info request    *)
(* and at most one PoW request (one work_generate request or one call of   *)
(* the local generator) and no process request; a getAccountInfo call      *)
(* makes at most one account_info request and nothing else, a processBlock *)
(* call at most one process request and nothing else; and when a request   *)
(* fails, the call is over with that failure and the failed request is the *)
(* last one it made.                                                       *)
(***************************************************************************)
C20_NothingRetried ==
  /\ Cardinality(EventsOf({"account_info"})) <= 1
  /\ Cardinality(EventsOf(PowRequests)) <= 1
  /\ Cardinality(EventsOf({"process"})) <= 1
  /\ call.op = "generateSendBlock" => EventsOf({"process"}) = {}
  /\ call.op = "getAccountInfo" => Requests = EventsOf({"account_info"}) /\ Len(log) <= 1
  /\ call.op = "processBlock" => Requests = EventsOf({"process"}) /\ Len(log) <= 1
  /\ (\/ call.caught.t = "throw"
      \/ \E p \in EventsOf({"work_answer"}) : log[p].what = "no_token")
       => /\ call.pc = "done"
          /\ call.result.t = "throw"
          /\ call.result.v.kind \in {ERROR_NANO_RPC_CONNECTION, ERROR_NANO_WORK_GENERATION}
          /\ IF log[Len(log)].ev = "work_answer"
             THEN (Len(log) - 1) \in Requests
             ELSE Requests = {Len(log)}

C20_Witness ==
  /\ call.op = "generateSendBlock"
  /\ call.caught.t = "throw"
  /\ call.caught.v.msg = "fetch failed"
  /\ Len(log) = 1
  /\ HooksAndGeneratorInstalled

(***************************************************************************)
(* C21: for each of the three config validators, bypassNullCheck never     *)
(* makes an invalid value acceptable.  A value is accepted with the flag   *)
(* set exactly when it is accepted with the flag clear; every rejection is *)
(* a configuration error; an absent value (null, undefined or empty) is    *)
(* rejected either way, with the "is not set" message when the flag is     *)
(* clear and with the format message when it is set.  The setters, which   *)
(* pass the flag, accept a value exactly when the validator does without   *)
(* the flag.                                                               *)
(***************************************************************************)
NotSet(result) ==
  result.v.msg \in {"NANO_RPC_URL is not set", "NANO_WORK_GENERATION_URL is not set",
                    "NANO_ACCOUNT_PRIVATE_KEY is not set"}

Accepted(result) == result.t = "return"

C21_Validated ==
  validation.out.t # "none" =>
     LET fn == validation.fn
         value == validation.value
     IN  /\ Accepted(validation.out) <=> Accepted(validate(fn, value, ~validation.bypassNullCheck))
         /\ ~Accepted(validation.out) => FailsWith(validation.out, ERROR_CONFIG)
         /\ Falsy(value) =>
               /\ ~Accepted(validation.out)
               /\ NotSet(validation.out) <=> ~validation.bypassNullCheck

CameToSigningWithoutWork ==
  /\ call.op = "generateSendBlock"
  /\ call.pc = "done"
  /\ \E p \in EventsOf({"work_answer"}) :
        Falsy(log[p].what) /\ verifyWork(call.previous, log[p].what)
  /\ EventsOf({"after_threw"}) = {}
  /\ Cardinality(EventsOf({"after_end"})) = Len(afterWorkGenerationHooks)

NothingSigned == EventsOf({"sign"}) = {}

NoHookMutated ==
  /\ \A f \in CryptographicInputs : call.context[f] = call[f]
  /\ Get(call.context, "work") \in {Undefined, call.work}

(***************************************************************************)
(* C23: when no hook changes anything, a successful generateSendBlock      *)
(* (payTo, amount) asked account_info about the account derived from the   *)
(* stored private key, requested the PoW for the frontier it fetched, and   *)
(* signed, with the stored private key, previous = the fetched frontier,    *)
(* representative = the fetched representative, balance = the fetched       *)
(* balance minus amount, link = payTo and work = the token that passed the  *)
(* verification for that frontier.                                         *)
(***************************************************************************)
C23_BlockFromFetchedAccount ==
  (Built /\ NoHookMutated) =>
     /\ EventsOf({"account_info"}) = {1}
     /\ log[1].what = deriveAddress(StoredKey)
     /\ \E p \in EventsOf(PowRequests) :
           EventsOf(PowRequests) = {p} /\ log[p].what = call.info.frontier
     /\ \E p \in EventsOf({"work_answer"}) :
           /\ EventsOf({"work_answer"}) = {p}
           /\ verifyWork(call.info.frontier, log[p].what)
           /\ log[Len(log)] = Event("sign", 0, StoredKey, log[p].what)
           /\ call.result.v =
                 [signBlock(StoredKey, call.info.representative,
                            calculateBalanceAfterSend(call.info.balance, call.amount).v,
                            log[p].what, call.payTo, call.info.frontier)
                    EXCEPT !.account = replacePrefix(deriveAddress(StoredKey))]

C23_Witness ==
  /\ Built
  /\ NoHookMutated
  /\ Len(beforeWorkGenerationHooks) > 0
  /\ Len(afterWorkGenerationHooks) > 0
  /\ call.amount = <<1>>
  /\ call.info.balance = <<1, 0>>
  /\ call.result.v.balance = <<9>>
  /\ call.result.v.signature = StoredKey

(***************************************************************************)
(* C24: a build of a Helper with a local work generator gets its PoW from  *)
(* the generator only: it calls the generator once and never sends a       *)
(* work_generate request, whether the generator answers valid work,        *)
(* invalid work or raises.  A build of a Helper without one sends exactly  *)
(* one work_generate request, to the work-generation URL, and calls no     *)
(* generator.                                                              *)
(***************************************************************************)
C24_OneSourceOfWork ==
  (call.op = "generateSendBlock" /\ EventsOf(PowRequests) # {}) =>
     \E p \in EventsOf(PowRequests) :
        /\ EventsOf(PowRequests) = {p}
        /\ IF workGenerator # Undefined
           THEN log[p] = Event("generator", 0, workGenerator, call.info.frontier)
           ELSE log[p] = Event("work_generate", 0, WorkUrl, call.info.frontier)
        /\ \A q \in EventsOf({"work_answer"}) :
              log[q].who = log[p].ev /\ EventsOf({"work_answer"}) = {q}

C24_Witness ==
  /\ workGenerator # Undefined
  /\ call.op = "generateSendBlock"
  /\ call.pc = "done"
  /\ FailsWith(call.result, ERROR_NANO_WORK_GENERATION)
  /\ \E q \in EventsOf({"work_answer"}) : log[q].what = "w_bad"
  /\ EventsOf({"work_generate"}) = {}
  /\ WorkUrlUsable

IsPrefix(s, t) == Len(s) <= Len(t) /\ SubSeq(t, 1, Len(s)) = s
Invocations(ev, i) == {p \in EventsOf({ev}) : log[p].i = i}

(***************************************************************************)
(* C25: the hook registries are append-only.  Over every step of every     *)
(* Helper operation, a failed build included, each registry before the     *)
(* step is a prefix of the registry after it; onBeforeWorkGeneration(hook) *)
(* and onAfterWorkGeneration(hook) put hook at the end of their registry   *)
(* and leave the other registry alone; every other step leaves both as     *)
(* they are.  A build invokes the entry at each position it comes to once, *)
(* so a hook registered twice is invoked twice.                            *)
(***************************************************************************)
C25_AppendOnly ==
  /\ [](call.op = "generateSendBlock" =>
          /\ \A p \in EventsOf(HookStarts) : log[p].who = Registry(log[p].ev)[log[p].i]
          /\ Built => \A ev \in HookStarts : \A i \in 1..Len(Registry(ev)) :
                         Cardinality(Invocations(ev, i)) = 1)
  /\ [][ /\ IsPrefix(beforeWorkGenerationHooks, beforeWorkGenerationHooks')
         /\ IsPrefix(afterWorkGenerationHooks, afterWorkGenerationHooks')
         /\ \A hook \in TwoHooks :
               /\ OnBeforeWorkGeneration(hook) =>
                     /\ beforeWorkGenerationHooks' = Append(beforeWorkGenerationHooks, hook)
                     /\ afterWorkGenerationHooks' = afterWorkGenerationHooks
               /\ OnAfterWorkGeneration(hook) =>
                     /\ afterWorkGenerationHooks' = Append(afterWorkGenerationHooks, hook)
                     /\ beforeWorkGenerationHooks' = beforeWorkGenerationHooks
         /\ ret'.op \notin {"onBeforeWorkGeneration", "onAfterWorkGeneration"} =>
               UNCHANGED <<beforeWorkGenerationHooks, afterWorkGenerationHooks>> ]_vars

C25_Witness ==
  /\ beforeWorkGenerationHooks = <<"hook_2", "hook_2">>
  /\ afterWorkGenerationHooks = <<"hook", "hook_2">>
  /\ Built
  /\ Cardinality({p \in EventsOf({"before"}) : log[p].who = "hook_2"}) = 2

\* The two calls in flight on one Helper, and what each one's own hooks did.
Calls == {[call |-> call, log |-> log], other}
InFlight(c) == c.call.pc \notin {"idle", "done"}
HasContext(c) == c.call.op = "generateSendBlock" /\ DOMAIN c.call.context # {}
Tampered(c) ==
  \E p \in 1..Len(c.log) : c.log[p].ev \in {"before_end", "after_end"}
                             /\ c.log[p].what = "w_bad"
ContextAsBuilt(c) ==
  /\ \A f \in CryptographicInputs : c.call.context[f] = c.call[f]
  /\ Get(c.call.context, "work") \in {Undefined, c.call.work}
BuiltBy(c) ==
  c.call.op = "generateSendBlock" /\ c.call.pc = "done" /\ c.call.result.t = "return"

(***************************************************************************)
(* C26: generateSendBlock is not serialised.  A second call starts while   *)
(* the first is in flight, whatever the first is waiting for, and each of  *)
(* the two builds its block on the frontier its own account_info request   *)
(* was answered with, so that both can return a block with the same        *)
(* previous.  Each call has a hook context of its own: a call's context    *)
(* differs from what its builder put into it only if one of that call's    *)
(* own hooks changed it, and a step of one call leaves the other call's    *)
(* context as it is.                                                       *)
(***************************************************************************)
C26_NotSerialisedOwnContext ==
  /\ [](\A c \in Calls :
          /\ BuiltBy(c) => c.call.result.v.previous = c.call.info.frontier
          /\ HasContext(c) => (Tampered(c) <=> ~ContextAsBuilt(c)))
  /\ [][ /\ (InFlight([call |-> call, log |-> log]) /\ other.call.pc \in {"idle", "done"}) =>
               ENABLED OtherGenerateSendBlock("nano_payee", <<1>>)
         /\ other' # other => call'.context = call.context
         /\ call' # call => other'.call.context = other.call.context ]_vars

C26_Witness ==
  /\ BuiltBy([call |-> call, log |-> log])
  /\ BuiltBy(other)
  /\ call.result.v.previous = other.call.result.v.previous
  /\ call.info.frontier = other.call.info.frontier
  /\ Tampered(other)
  /\ ~Tampered([call |-> call, log |-> log])
  /\ ContextAsBuilt([call |-> call, log |-> log])

\* A call is inside nanoRpcCall, waiting for the exchange to end.
InRpc(c) == c.pc \in {"account_info", "process"} \/ (c.pc = "work" /\ c.generator = Undefined)
\* The deadline of the first call's, of the second call's pending RPC expires.
Expires ==
  \/ AccountInfoSettles(TimedOut)
  \/ call.generator = Undefined /\ WorkSettles(TimedOut)
OtherExpires ==
  \/ OtherAccountInfoSettles(TimedOut)
  \/ other.call.generator = Undefined /\ OtherWorkSettles(TimedOut)

(***************************************************************************)
(* C27: each RPC call has a deadline timer and a cancellation of its own.  *)
(* A call has a timer pending exactly while it is inside an RPC exchange,  *)
(* so that however the exchange ends (answer, failure, timeout) the timer  *)
(* is cleared and no deadline fires once the exchange is over; and when    *)
(* the deadline of one call's exchange expires, that exchange alone is     *)
(* aborted: the other call, its pending exchange and its timer are as they *)
(* were.                                                                   *)
(***************************************************************************)
C27_OwnDeadline ==
  /\ [](\A c \in {call, other.call} : c.timer > 0 <=> InRpc(c))
  /\ [][ /\ Expires =>
               /\ InRpc(call) /\ call.timer > 0
               /\ call'.pc = "done" /\ call'.timer = 0
               /\ other' = other
         /\ OtherExpires =>
               /\ InRpc(other.call) /\ other.call.timer > 0
               /\ other'.call.pc = "done" /\ other'.call.timer = 0
               /\ call' = call /\ log' = log ]_vars

C27_Witness ==
  /\ call.pc = "done"
  /\ call.caught.t = "throw"
  /\ call.caught.v.msg = "This operation was aborted"
  /\ call.timer = 0
  /\ other.call.pc = "work"
  /\ other.call.timer = 5 * ONE_MINUTE

(***************************************************************************)
(* C28 as stated: whatever the caller does to the private key while a      *)
(* generateSendBlock call is in flight, the signing routine is called with *)
(* a key that is set, and with the key whose account the call asked        *)
(* account_info about.                                                     *)
(***************************************************************************)
C28_AsStated ==
  call.op = "generateSendBlock" =>
     \A p \in EventsOf({"sign"}) :
        /\ ~Falsy(log[p].who)
        /\ deriveAddress(log[p].who) = log[1].what

\* The two ways C28 fails: a block for the account of another key, built on
\* the frontier of the account that was asked about; a signing call with no key.
C28_SignedWithOtherKey ==
  /\ Built
  /\ log[1].what = deriveAddress(SAMPLE_NANO_ACCOUNT_PRIVATE_KEY)
  /\ call.result.v.signature = SAMPLE_NANO_ACCOUNT_PRIVATE_KEY_2
  /\ call.result.v.previous = call.info.frontier

C28_SignedWithoutKey ==
  /\ call.pc = "done"
  /\ call.result = Throw(LibraryError)
  /\ log[Len(log)].ev = "sign"
  /\ log[Len(log)].who = Undefined

(***************************************************************************)
(* C29 as stated: a generateSendBlock call invokes the hooks that were in  *)
(* the registries when it started; a hook registered while the call is in  *)
(* flight is not invoked by that call.                                     *)
(***************************************************************************)
C29_AsStated ==
  call.op = "generateSendBlock" =>
     \A p \in EventsOf(HookStarts) : log[p].who # LateHook

\* How C29 fails: a build that began with no before-hook registered invokes
\* the one registered while it waited for account_info.
C29_LateHookInvoked ==
  /\ Built
  /\ beforeWorkGenerationHooks = <<LateHook>>
  /\ \E p \in EventsOf({"before"}) : log[p] = Event("before", 1, LateHook, Undefined)

Setters == {"setNanoRpcUrl", "setNanoWorkGenerationUrl", "setNanoAccountPrivateKey",
            "setCustomWorkGenerator"}

(***************************************************************************)
(* C30: a setter that fails leaves the Helper unchanged.  Over every step  *)
(* in which setNanoRpcUrl, setNanoWorkGenerationUrl,                       *)
(* setNanoAccountPrivateKey or setCustomWorkGenerator throws (a value that *)
(* is absent or malformed, a key when one is already set, a generator that *)
(* is not a function), the RPC URL, the work-generation URL, the stored    *)
(* key, the work generator and the hook registries are after the step what *)
(* they were before it.                                                    *)
(***************************************************************************)
C30_FailedSetterChangesNothing ==
  [][(ret'.op \in Setters /\ ret'.t = "throw") =>
        /\ RpcUrl' = RpcUrl
        /\ WorkUrl' = WorkUrl
        /\ StoredKey' = StoredKey
        /\ config' = config
        /\ workGenerator' = workGenerator
        /\ UNCHANGED <<beforeWorkGenerationHooks, afterWorkGenerationHooks>>]_vars

C30_Witness ==
  /\ ret.op = "setCustomWorkGenerator"
  /\ ret.t = "throw"
  /\ workGenerator \in WorkGenerators
  /\ KeySet
  /\ WorkUrl # RpcUrl

\* A URL of the configuration is set: it is neither null nor undefined.
IsSet(url) == url # Undefined

(***************************************************************************)
(* C31: in every state the constructor and the Helper's methods lead to,   *)
(* a Helper whose RPC URL is set has its work-generation URL set as well,  *)
(* and no step makes a URL that is set unset.                              *)
(***************************************************************************)
C31_WorkUrlSetWithRpcUrl ==
  /\ [](constructed /\ IsSet(RpcUrl) => IsSet(WorkUrl))
  /\ [][ /\ IsSet(RpcUrl) => IsSet(RpcUrl')
         /\ IsSet(WorkUrl) => IsSet(WorkUrl') ]_vars

C31_Witness ==
  /\ ret.op = "setNanoRpcUrl"
  /\ ret.t = "return"
  /\ ~workUrlSupplied
  /\ DOMAIN config = {NANO_RPC_URL, NANO_WORK_GENERATION_URL}
  /\ IsSet(RpcUrl)
  /\ IsSet(WorkUrl)

====
